---- MODULE Spec2Model ----
(***************************************************************************)
(* ReverHTTP compiler pipeline: tokenizer (internal/lexer), recursive      *)
(* descent parser (internal/parser), AST-to-IR generator (internal/gen).   *)
(* Source text is a sequence of one-character strings; Go's 0-based byte   *)
(* offsets are kept, so input[i] of the source is l.input[i+1] here.       *)
(***************************************************************************)
EXTENDS Integers, Sequences, FiniteSets, TLC

VARIABLES
  l,        \* the lexer.Lexer object
  tok,      \* the token returned by the last direct NextToken call
  cur,      \* Parser.cur
  peek,     \* Parser.peek
  errors,   \* Parser.errors
  file,     \* the *ast.File built by ParseFile
  pc,       \* position of the driver
  root,     \* the *ir.Root built by Generate
  out,      \* the marshalled JSON view of root
  srcFiles, \* the source files main has still to process
  fileIRs,  \* the fileIR values main has passed to mergeIR, in order
  hasErrors, \* main's hasErrors flag
  store,    \* the language server's DocumentStore: its mutex and its docs map
  calls,    \* the DocumentStore call each goroutine is in
  log       \* the Open, Update and Close calls that took effect, in order

vars == <<l, tok, cur, peek, errors, file, pc, root, out, srcFiles, fileIRs, hasErrors,
          store, calls, log>>

\* the variables only the language server's goroutines change
lsp == <<store, calls, log>>

\* the variables only the multi-file driver changes
driver == <<srcFiles, fileIRs, hasErrors>>

(***************************************************************************)
(* Bounds                                                                  *)
(***************************************************************************)
MaxLen == 4
MaxFrags == 2

\* the value of a function on its only argument: With([x \in {e} |-> body]) is
\* body with x bound to the value of e, which is computed once
With(f) == f[CHOOSE d \in DOMAIN f : TRUE]

(***************************************************************************)
(* Characters                                                              *)
(***************************************************************************)
NUL == "NUL"
NL == "\n"
QUOTE == "\""
BSLASH == "\\"

Lower == {"a","b","c","d","e","f","g","h","i","j","k","l","m",
          "n","o","p","q","r","s","t","u","v","w","x","y","z"}
Upper == {"A","B","C","D","E","F","G","H","I","J","K","L","M",
          "N","O","P","Q","R","S","T","U","V","W","X","Y","Z"}
Digit == {"0","1","2","3","4","5","6","7","8","9"}

isDigit(ch) == ch \in Digit
isLetter(ch) == ch \in Lower \cup Upper
isIdentStart(ch) == isLetter(ch) \/ ch = "_"
isAlphaNumUnderscore(ch) == isLetter(ch) \/ isDigit(ch) \/ ch = "_"
isIdentContinue(ch) == isAlphaNumUnderscore(ch) \/ ch = "-"
isAlphaNum(ch) == isLetter(ch) \/ isDigit(ch)

(***************************************************************************)
(* token package                                                           *)
(***************************************************************************)
LookupIdent(ident) ==
  CASE ident = <<"i","m","p","o","r","t">> -> "IMPORT"
    [] ident = <<"t","y","p","e">> -> "TYPE"
    [] ident = <<"d","e","f","a","u","l","t","s">> -> "DEFAULTS"
    [] ident = <<"a","s">> -> "AS"
    [] ident = <<"m","a","t","c","h">> -> "MATCH"
    [] ident = <<"g","u","a","r","d">> -> "GUARD"
    [] ident = <<"r","e","s","p","o","n","d">> -> "RESPOND"
    [] ident = <<"i","n","p","u","t">> -> "INPUT"
    [] ident = <<"v","a","l","i","d","a","t","e">> -> "VALIDATE"
    [] ident = <<"t","r","a","n","s","f","o","r","m">> -> "TRANSFORM"
    [] ident = <<"w","i","t","h">> -> "WITH"
    [] ident = <<"h","e","a","d","e","r","s">> -> "HEADERS"
    [] ident = <<"c","a","c","h","e">> -> "CACHE"
    [] ident = <<"c","o","r","s">> -> "CORS"
    [] ident = <<"a","u","t","h">> -> "AUTH"
    [] ident = <<"n","o","n","e">> -> "NONE"
    [] ident = <<"G","E","T">> -> "GET"
    [] ident = <<"P","O","S","T">> -> "POST"
    [] ident = <<"P","U","T">> -> "PUT"
    [] ident = <<"D","E","L","E","T","E">> -> "DELETE"
    [] ident = <<"P","A","T","C","H">> -> "PATCH"
    [] ident = <<"H","E","A","D">> -> "HEAD"
    [] ident = <<"O","P","T","I","O","N","S">> -> "OPTIONS"
    [] OTHER -> "IDENT"

IsHTTPMethod(t) == t \in {"GET", "POST", "PUT", "DELETE", "PATCH", "HEAD", "OPTIONS"}

Position(f, ln, c) == [File |-> f, Line |-> ln, Column |-> c]

Token(t, lit, pos) == [Type |-> t, Literal |-> lit, Pos |-> pos]

\* the zero value of token.Token
ZeroToken == Token("ILLEGAL", <<>>, Position(<<>>, 0, 0))

(***************************************************************************)
(* lexer package                                                           *)
(***************************************************************************)
readChar(lx) ==
  [lx EXCEPT !.ch = IF lx.readPos >= Len(lx.input) THEN NUL ELSE lx.input[lx.readPos + 1],
             !.pos = lx.readPos,
             !.readPos = lx.readPos + 1,
             !.col = lx.col + 1]

peekChar(lx) == IF lx.readPos >= Len(lx.input) THEN NUL ELSE lx.input[lx.readPos + 1]

curPos(lx) == Position(lx.file, lx.line, lx.col)

New(input, f) ==
  readChar([input |-> input, file |-> f, pos |-> 0, readPos |-> 0, ch |-> NUL,
            line |-> 1, col |-> 0,
            parenDepth |-> 0, braceDepth |-> 0, bracketDepth |-> 0,
            regexMode |-> FALSE])

SetRegexMode(lx, on) == [lx EXCEPT !.regexMode = on]

\* a variant that counts a closing bracket also at depth zero
closeDepthUnclamped(depth) == depth - 1

\* if l.parenDepth > 0 { l.parenDepth-- }, and the same for the other counters
closeDepth(depth) == IF depth > 0 THEN depth - 1 ELSE depth

\* a variant that forgets the square brackets
insideBracketsRound(lx) == lx.parenDepth > 0 \/ lx.braceDepth > 0

insideBrackets(lx) == lx.parenDepth > 0 \/ lx.braceDepth > 0 \/ lx.bracketDepth > 0

\* input[start:end]; Go panics when end exceeds len(input) or start exceeds end
SliceOK(lx, start, end) == start <= end /\ end <= Len(lx.input)
Slice(lx, start, end) == SubSeq(lx.input, start + 1, end)

RECURSIVE skipBlanks(_)
skipBlanks(lx) ==
  IF lx.ch \in {" ", "\t", "\r"} THEN skipBlanks(readChar(lx)) ELSE lx

RECURSIVE skipLine(_)
skipLine(lx) ==
  IF lx.ch # NL /\ lx.ch # NUL THEN skipLine(readChar(lx)) ELSE lx

RECURSIVE skipWhitespaceAndComments(_)
skipWhitespaceAndComments(lx) ==
  With([a \in {skipBlanks(lx)} |->
  IF a.ch = "#" THEN skipWhitespaceAndComments(skipLine(a)) ELSE a])

\* every reader returns the lexer after the call, the token, and whether the
\* call panicked (slice bounds out of range) instead of returning
Ret(lx, t) == [l |-> lx, tok |-> t, panic |-> FALSE]
Panic(lx) == [l |-> lx, tok |-> ZeroToken, panic |-> TRUE]

\* a variant that absorbs a hyphen whatever follows it
RECURSIVE identLoopAnyHyphen(_)
identLoopAnyHyphen(lx) ==
  IF isAlphaNumUnderscore(lx.ch) THEN identLoopAnyHyphen(readChar(lx))
  ELSE IF lx.ch = "-" THEN identLoopAnyHyphen(readChar(readChar(lx)))
  ELSE lx

RECURSIVE identLoop(_)
identLoop(lx) ==
  IF isAlphaNumUnderscore(lx.ch) THEN identLoop(readChar(lx))
  ELSE IF lx.ch = "-" /\ isAlphaNum(peekChar(lx)) THEN identLoop(readChar(readChar(lx)))
  ELSE lx

readIdentifier(lx) ==
  LET pos == curPos(lx)
      start == lx.pos IN
  With([e \in {identLoop(readChar(lx))} |->
     IF SliceOK(e, start, e.pos)
     THEN With([lit \in {Slice(e, start, e.pos)} |-> Ret(e, Token(LookupIdent(lit), lit, pos))])
     ELSE Panic(e)])

RECURSIVE numberLoop(_)
numberLoop(lx) == IF isDigit(lx.ch) THEN numberLoop(readChar(lx)) ELSE lx

readNumber(lx) ==
  LET pos == curPos(lx)
      start == lx.pos IN
  With([e \in {numberLoop(lx)} |->
     IF SliceOK(e, start, e.pos)
     THEN Ret(e, Token("INT", Slice(e, start, e.pos), pos))
     ELSE Panic(e)])

\* the scanning loop shared in shape by readString and readRegex: stop at the
\* delimiter, at NUL or at a newline; a backslash skips one more character
RECURSIVE literalLoop(_, _)
literalLoop(lx, delim) ==
  IF lx.ch # delim /\ lx.ch # NUL /\ lx.ch # NL
  THEN literalLoop(readChar(IF lx.ch = BSLASH THEN readChar(lx) ELSE lx), delim)
  ELSE lx

readDelimited(lx, delim, type) ==
  LET pos == curPos(lx) IN
  With([a \in {readChar(lx)} |->
  LET start == a.pos IN
  With([e \in {literalLoop(a, delim)} |->
     IF SliceOK(e, start, e.pos)
     THEN Ret(IF e.ch = delim THEN readChar(e) ELSE e,
              Token(type, Slice(e, start, e.pos), pos))
     ELSE Panic(e)])])

readString(lx) == readDelimited(lx, QUOTE, "STRING")

readRegex(lx) == readDelimited(lx, "/", "REGEX")

RECURSIVE NextToken(_)
NextToken(lx0) ==
  With([lx \in {skipWhitespaceAndComments(lx0)} |->
  LET pos == curPos(lx)
      c == lx.ch
      one(t) == Ret(readChar(lx), Token(t, <<c>>, pos))
      two(t) == Ret(readChar(readChar(lx)), Token(t, <<c, peekChar(lx)>>, pos)) IN
     CASE c = NUL -> Ret(lx, Token("EOF", <<>>, pos))
       [] c = NL ->
            With([n \in {readChar([lx EXCEPT !.line = lx.line + 1, !.col = 0])} |->
               IF insideBrackets(n) THEN NextToken(n)
               ELSE Ret(n, Token("NEWLINE", <<NL>>, pos))])
       [] c = "|" -> IF peekChar(lx) = ">" THEN two("PIPE") ELSE one("ILLEGAL")
       [] c = "~" -> IF peekChar(lx) = ">" THEN two("ERROR") ELSE one("ILLEGAL")
       [] c = "&" -> one("AMPERSAND")
       [] c = "." -> IF peekChar(lx) = "." THEN two("RANGE") ELSE one("DOT")
       [] c = ":" -> one("COLON")
       [] c = "," -> one("COMMA")
       [] c = "!" -> one("BANG")
       [] c = "=" -> one("ASSIGN")
       [] c = "@" -> one("AT")
       [] c = "/" -> IF lx.regexMode THEN readRegex(lx) ELSE one("SLASH")
       [] c = "(" -> Ret(readChar([lx EXCEPT !.parenDepth = lx.parenDepth + 1]),
                         Token("LPAREN", <<c>>, pos))
       [] c = ")" -> Ret(readChar([lx EXCEPT !.parenDepth =
                                      closeDepth(lx.parenDepth)]),
                         Token("RPAREN", <<c>>, pos))
       [] c = "{" -> Ret(readChar([lx EXCEPT !.braceDepth = lx.braceDepth + 1]),
                         Token("LBRACE", <<c>>, pos))
       [] c = "}" -> Ret(readChar([lx EXCEPT !.braceDepth =
                                      closeDepth(lx.braceDepth)]),
                         Token("RBRACE", <<c>>, pos))
       [] c = "[" -> Ret(readChar([lx EXCEPT !.bracketDepth = lx.bracketDepth + 1]),
                         Token("LBRACKET", <<c>>, pos))
       [] c = "]" -> Ret(readChar([lx EXCEPT !.bracketDepth =
                                      closeDepth(lx.bracketDepth)]),
                         Token("RBRACKET", <<c>>, pos))
       [] c = "_" -> IF isIdentContinue(peekChar(lx)) THEN readIdentifier(lx) ELSE one("UNDERSCORE")
       [] c = QUOTE -> readString(lx)
       [] OTHER -> IF isDigit(c) THEN readNumber(lx)
                   ELSE IF isIdentStart(c) THEN readIdentifier(lx)
                   ELSE one("ILLEGAL")])

(***************************************************************************)
(* Strings the parser and the generator compare against                    *)
(***************************************************************************)
sNone == <<"n","o","n","e">>
sTrue == <<"t","r","u","e">>
sCache == <<"c","a","c","h","e">>
sCors == <<"c","o","r","s">>
sAuth == <<"a","u","t","h">>
sMaxAge == <<"m","a","x","-","a","g","e">>
sSMaxAge == <<"s","-","m","a","x","a","g","e">>
sEtag == <<"e","t","a","g">>
sLastModified == <<"l","a","s","t","-","m","o","d","i","f","i","e","d">>
sVary == <<"v","a","r","y">>
sPublic == <<"p","u","b","l","i","c">>
sPrivate == <<"p","r","i","v","a","t","e">>
sNoCache == <<"n","o","-","c","a","c","h","e">>
sNoStore == <<"n","o","-","s","t","o","r","e">>
sOrigins == <<"o","r","i","g","i","n","s">>
sMethods == <<"m","e","t","h","o","d","s">>
sHeaders == <<"h","e","a","d","e","r","s">>
sExposeHeaders == <<"e","x","p","o","s","e","-","h","e","a","d","e","r","s">>
sCredentials == <<"c","r","e","d","e","n","t","i","a","l","s">>
sRoles == <<"r","o","l","e","s">>
sPermissions == <<"p","e","r","m","i","s","s","i","o","n","s">>
sInt == <<"i","n","t">>
sString == <<"s","t","r","i","n","g">>
sBool == <<"b","o","o","l">>
sFloat == <<"f","l","o","a","t">>
sDatetime == <<"d","a","t","e","t","i","m","e">>
sMin == <<"m","i","n">>
sMax == <<"m","a","x">>
sFormat == <<"f","o","r","m","a","t">>
sFalse == <<"f","a","l","s","e">>
sNull == <<"n","u","l","l">>
sType == <<"t","y","p","e">>
sData == <<"d","a","t","a">>
sId == <<"i","d">>

Nil == <<>>

RECURSIVE Join(_)
Join(parts) == IF parts = <<>> THEN <<>> ELSE Head(parts) \o Join(Tail(parts))

RECURSIVE JoinDot(_)
JoinDot(parts) ==
  IF parts = <<>> THEN <<>>
  ELSE IF Len(parts) = 1 THEN Head(parts)
  ELSE Head(parts) \o <<".">> \o JoinDot(Tail(parts))

(***************************************************************************)
(* fmt.Sprintf("%s:%d:%d: %s", ...) and strconv: decimal digits            *)
(***************************************************************************)
DigitOf(n) == CASE n = 0 -> "0" [] n = 1 -> "1" [] n = 2 -> "2" [] n = 3 -> "3" [] n = 4 -> "4"
                [] n = 5 -> "5" [] n = 6 -> "6" [] n = 7 -> "7" [] n = 8 -> "8" [] n = 9 -> "9"

ValueOf(d) == CASE d = "0" -> 0 [] d = "1" -> 1 [] d = "2" -> 2 [] d = "3" -> 3 [] d = "4" -> 4
                [] d = "5" -> 5 [] d = "6" -> 6 [] d = "7" -> 7 [] d = "8" -> 8 [] d = "9" -> 9

RECURSIVE Itoa(_)
Itoa(n) == IF n < 0 THEN <<"-">> \o Itoa(0 - n)
           ELSE IF n < 10 THEN <<DigitOf(n)>>
           ELSE Itoa(n \div 10) \o <<DigitOf(n % 10)>>

\* token.Type.String: the name of a token type in diagnostics
TypeString(t) ==
  CASE t = "ILLEGAL" -> <<"I", "L", "L", "E", "G", "A", "L">>
    [] t = "EOF" -> <<"E", "O", "F">>
    [] t = "NEWLINE" -> <<"N", "E", "W", "L", "I", "N", "E">>
    [] t = "IDENT" -> <<"I", "D", "E", "N", "T">>
    [] t = "INT" -> <<"I", "N", "T">>
    [] t = "STRING" -> <<"S", "T", "R", "I", "N", "G">>
    [] t = "REGEX" -> <<"R", "E", "G", "E", "X">>
    [] t = "GET" -> <<"G", "E", "T">>
    [] t = "POST" -> <<"P", "O", "S", "T">>
    [] t = "PUT" -> <<"P", "U", "T">>
    [] t = "DELETE" -> <<"D", "E", "L", "E", "T", "E">>
    [] t = "PATCH" -> <<"P", "A", "T", "C", "H">>
    [] t = "HEAD" -> <<"H", "E", "A", "D">>
    [] t = "OPTIONS" -> <<"O", "P", "T", "I", "O", "N", "S">>
    [] t = "PIPE" -> <<"|", ">">>
    [] t = "ERROR" -> <<"~", ">">>
    [] t = "AMPERSAND" -> <<"&">>
    [] t = "RANGE" -> <<".", ".">>
    [] t = "COLON" -> <<":">>
    [] t = "COMMA" -> <<",">>
    [] t = "DOT" -> <<".">>
    [] t = "BANG" -> <<"!">>
    [] t = "ASSIGN" -> <<"=">>
    [] t = "AT" -> <<"@">>
    [] t = "SLASH" -> <<"/">>
    [] t = "LPAREN" -> <<"(">>
    [] t = "RPAREN" -> <<")">>
    [] t = "LBRACE" -> <<"{">>
    [] t = "RBRACE" -> <<"}">>
    [] t = "LBRACKET" -> <<"[">>
    [] t = "RBRACKET" -> <<"]">>
    [] t = "UNDERSCORE" -> <<"_">>
    [] t = "IMPORT" -> <<"i", "m", "p", "o", "r", "t">>
    [] t = "TYPE" -> <<"t", "y", "p", "e">>
    [] t = "DEFAULTS" -> <<"d", "e", "f", "a", "u", "l", "t", "s">>
    [] t = "AS" -> <<"a", "s">>
    [] t = "MATCH" -> <<"m", "a", "t", "c", "h">>
    [] t = "GUARD" -> <<"g", "u", "a", "r", "d">>
    [] t = "RESPOND" -> <<"r", "e", "s", "p", "o", "n", "d">>
    [] t = "INPUT" -> <<"i", "n", "p", "u", "t">>
    [] t = "VALIDATE" -> <<"v", "a", "l", "i", "d", "a", "t", "e">>
    [] t = "TRANSFORM" -> <<"t", "r", "a", "n", "s", "f", "o", "r", "m">>
    [] t = "WITH" -> <<"w", "i", "t", "h">>
    [] t = "HEADERS" -> <<"h", "e", "a", "d", "e", "r", "s">>
    [] t = "CACHE" -> <<"c", "a", "c", "h", "e">>
    [] t = "CORS" -> <<"c", "o", "r", "s">>
    [] t = "AUTH" -> <<"a", "u", "t", "h">>
    [] t = "NONE" -> <<"n", "o", "n", "e">>
    [] OTHER -> <<"U", "N", "K", "N", "O", "W", "N">>

\* the %q verb of fmt: the text in double quotes, with Go escapes
QuoteChar(c) ==
  CASE c = QUOTE -> <<BSLASH, QUOTE>>
    [] c = BSLASH -> <<BSLASH, BSLASH>>
    [] c = NL -> <<BSLASH, "n">>
    [] c = "\t" -> <<BSLASH, "t">>
    [] c = "\r" -> <<BSLASH, "r">>
    [] OTHER -> <<c>>

RECURSIVE QuoteChars(_)
QuoteChars(s) == IF s = <<>> THEN <<>> ELSE QuoteChar(Head(s)) \o QuoteChars(Tail(s))

Quote(s) == <<QUOTE>> \o QuoteChars(s) \o <<QUOTE>>

\* a variant that leaves the column out
SprintfNoColumn(pos, msg) ==
  pos.File \o <<":">> \o Itoa(pos.Line) \o <<":", " ">> \o msg

\* msg is a text; the fixed wording of a message is kept as one element (a
\* non-empty text without line breaks), the formatted parts are characters
Sprintf(pos, msg) ==
  pos.File \o <<":">> \o Itoa(pos.Line) \o <<":">> \o Itoa(pos.Column) \o <<":", " ">> \o msg

(***************************************************************************)
(* parser package.  A parse function takes the parser p (its lexer, cur,   *)
(* peek, errors) and returns the parser after the call with the value      *)
(* returned.  p.st is "ok" while the call chain is running normally,       *)
(* "panic" once a NextToken call panicked, and "hung" once a loop made an  *)
(* iteration that changed neither the lexer nor cur nor peek while its     *)
(* condition held: the Go loop then repeats that iteration forever.        *)
(***************************************************************************)
R(p, v) == [p |-> p, v |-> v]

Ctl(p) == <<p.l, p.cur, p.peek>>

Hung(p) == [p EXCEPT !.st = "hung"]

Running(p) == p.st = "ok"

\* a variant that puts the new diagnostic in front of the list
addErrorFirst(p, msg) ==
  IF ~Running(p) THEN p
  ELSE [p EXCEPT !.errors = <<Sprintf(p.cur.Pos, msg)>> \o @]

addError(p, msg) ==
  IF ~Running(p) THEN p
  ELSE [p EXCEPT !.errors = Append(@, Sprintf(p.cur.Pos, msg))]

nextToken(p) ==
  IF ~Running(p) THEN p
  ELSE With([r \in {NextToken(p.l)} |->
          IF r.panic THEN [p EXCEPT !.l = r.l, !.st = "panic"]
          ELSE [p EXCEPT !.l = r.l, !.cur = p.peek, !.peek = r.tok]])

curIs(p, t) == p.cur.Type = t

peekIs(p, t) == p.peek.Type = t

ParserNew(lx) ==
  nextToken(nextToken([l |-> lx, cur |-> ZeroToken, peek |-> ZeroToken,
                       errors |-> <<>>, st |-> "ok"]))

RECURSIVE skipNewlines(_)
skipNewlines(p) ==
  IF Running(p) /\ curIs(p, "NEWLINE") THEN skipNewlines(nextToken(p)) ELSE p

RECURSIVE skipToNextStatement(_)
skipToNextStatement(p) ==
  IF Running(p) /\ ~curIs(p, "EOF")
  THEN IF curIs(p, "PIPE") \/ curIs(p, "NEWLINE") \/ IsHTTPMethod(p.cur.Type)
       THEN p
       ELSE skipToNextStatement(nextToken(p))
  ELSE p

\* if cur is of type t, consume it
skipIf(p, t) == IF curIs(p, t) THEN nextToken(p) ELSE p

\* the literals of the tokens up to a NEWLINE, EOF or (when stopAtAt) AT
RECURSIVE collectLine(_, _, _)
collectLine(p, parts, stopAtAt) ==
  IF Running(p) /\ ~curIs(p, "NEWLINE") /\ ~curIs(p, "EOF") /\ ~(stopAtAt /\ curIs(p, "AT"))
  THEN collectLine(nextToken(p), Append(parts, p.cur.Literal), stopAtAt)
  ELSE R(p, parts)

joinSourceParts(parts) == Join(parts)

parseImportSource(p) ==
  With([r \in {collectLine(p, <<>>, TRUE)} |-> R(r.p, joinSourceParts(r.v))])

ImportDecl(pos, alias, source, version, local) ==
  [Pos |-> pos, Alias |-> alias, Source |-> source, Version |-> version, Local |-> local]

parseImport(p0) ==
  LET pos == p0.cur.Pos IN
  With([p1 \in {nextToken(p0)} |->
     IF ~curIs(p1, "IDENT") /\ ~curIs(p1, "DELETE")
     THEN R(skipToNextStatement(addError(p1, <<"expected identifier after 'import', got ">> \o TypeString(p1.cur.Type))), Nil)
     ELSE
       LET alias == p1.cur.Literal IN
       With([p2 \in {nextToken(p1)} |->
          IF ~curIs(p2, "ASSIGN")
          THEN R(skipToNextStatement(addError(p2, <<"expected '=' after import alias">>)), Nil)
          ELSE
            With([p3 \in {nextToken(p2)} |->
               IF curIs(p3, "AT") /\ peekIs(p3, "SLASH")
               THEN With([r \in {collectLine(nextToken(nextToken(p3)), <<>>, FALSE)} |->
                       R(r.p, <<ImportDecl(pos, alias, <<"@", "/">> \o Join(r.v), <<>>, TRUE)>>)])
               ELSE
                 With([src \in {parseImportSource(p3)} |->
                    IF curIs(src.p, "AT")
                    THEN With([ver \in {collectLine(nextToken(src.p), <<>>, FALSE)} |->
                            R(ver.p, <<ImportDecl(pos, alias, src.v, Join(ver.v), FALSE)>>)])
                    ELSE R(src.p, <<ImportDecl(pos, alias, src.v, <<>>, FALSE)>>)])])])])

\* one iteration of the field loop of parseType; brk says the loop was left by break
parseTypeField(p0, fields) ==
  With([p1 \in {skipNewlines(p0)} |->
     IF curIs(p1, "RBRACE") THEN [p |-> p1, v |-> fields, brk |-> TRUE]
     ELSE
       LET fieldName == p1.cur.Literal IN
       With([p2 \in {nextToken(p1)} |->
          IF ~curIs(p2, "COLON")
          THEN [p |-> skipToNextStatement(addError(p2, <<"expected ':' after field name">>)),
                v |-> fields, brk |-> FALSE]
          ELSE
            With([p3 \in {nextToken(p2)} |->
            LET typeName == p3.cur.Literal IN
            With([p4 \in {nextToken(p3)} |->
               [p |-> skipNewlines(skipIf(p4, "COMMA")),
                v |-> Append(fields, [Name |-> fieldName, TypeName |-> typeName]),
                brk |-> FALSE]])])])])

RECURSIVE parseTypeFields(_, _)
parseTypeFields(p, fields) ==
  IF Running(p) /\ ~curIs(p, "RBRACE") /\ ~curIs(p, "EOF")
  THEN With([r \in {parseTypeField(p, fields)} |->
          IF r.brk THEN R(r.p, r.v)
          ELSE IF Running(r.p) /\ Ctl(r.p) = Ctl(p) THEN R(Hung(r.p), r.v)
          ELSE parseTypeFields(r.p, r.v)])
  ELSE R(p, fields)

parseType(p0) ==
  LET pos == p0.cur.Pos IN
  With([p1 \in {nextToken(p0)} |->
     IF ~curIs(p1, "IDENT")
     THEN R(skipToNextStatement(addError(p1, <<"expected type name after 'type'">>)), Nil)
     ELSE
       LET name == p1.cur.Literal IN
       With([p2 \in {nextToken(p1)} |->
          IF ~curIs(p2, "LBRACE")
          THEN R(skipToNextStatement(addError(p2, <<"expected '{' after type name">>)), Nil)
          ELSE
            With([r \in {parseTypeFields(skipNewlines(nextToken(p2)), <<>>)} |->
               R(skipIf(r.p, "RBRACE"), <<[Pos |-> pos, Name |-> name, Fields |-> r.v]>>)])])])

(***************************************************************************)
(* Directives                                                              *)
(***************************************************************************)
Expr(kind, str, int, list) == [Kind |-> kind, StrVal |-> str, IntVal |-> int, ListVal |-> list]

\* the zero value ast.Expr{}: ExprString is the first ExprKind
ZeroExpr == Expr("ExprString", <<>>, <<>>, <<>>)

Arg(name, value) == [Name |-> name, Value |-> value]

RECURSIVE listItems(_, _)
listItems(p, items) ==
  IF Running(p) /\ ~curIs(p, "RBRACKET") /\ ~curIs(p, "EOF")
  THEN listItems(skipIf(nextToken(p), "COMMA"), Append(items, p.cur.Literal))
  ELSE R(p, items)

parseListExpr(p) ==
  With([r \in {listItems(nextToken(p), <<>>)} |->
     R(skipIf(r.p, "RBRACKET"), Expr("ExprList", <<>>, <<>>, r.v))])

\* the loop "for p.curIs(token.DOT)" of parseExprValue, parseGuard and parseDottedName
RECURSIVE dottedParts(_, _)
dottedParts(p, parts) ==
  IF Running(p) /\ curIs(p, "DOT")
  THEN With([p1 \in {nextToken(p)} |->
          IF curIs(p1, "IDENT") THEN dottedParts(nextToken(p1), Append(parts, p1.cur.Literal))
          ELSE dottedParts(p1, parts)])
  ELSE R(p, parts)

parseExprValue(p) ==
  CASE curIs(p, "STRING") -> R(nextToken(p), Expr("ExprString", p.cur.Literal, <<>>, <<>>))
    [] curIs(p, "INT") -> R(nextToken(p), Expr("ExprInt", <<>>, p.cur.Literal, <<>>))
    [] curIs(p, "LBRACKET") -> parseListExpr(p)
    [] curIs(p, "IDENT") ->
         LET name == p.cur.Literal IN
         With([p1 \in {nextToken(p)} |->
            IF curIs(p1, "LPAREN")
            THEN With([p2 \in {nextToken(p1)} |->
                 LET argVal == IF curIs(p2, "IDENT") THEN p2.cur.Literal ELSE <<>> IN
                 With([p3 \in {skipIf(p2, "IDENT")} |->
                    R(skipIf(p3, "RPAREN"),
                      Expr("ExprFuncCall", name \o <<"(">> \o argVal \o <<")">>, <<>>, <<>>))])])
            ELSE IF curIs(p1, "DOT")
            THEN With([r \in {dottedParts(p1, <<name>>)} |->
                    R(r.p, Expr("ExprIdent", JoinDot(r.v), <<>>, <<>>))])
            ELSE R(p1, Expr("ExprIdent", name, <<>>, <<>>))])
    [] OTHER -> R(nextToken(p), ZeroExpr)

isHyphenatedKeyword(p) == curIs(p, "IDENT")

\* one iteration of the loop of parseDirectiveArgs
parseDirectiveArg(p, args) ==
  IF curIs(p, "NONE")
  THEN R(skipIf(nextToken(p), "COMMA"),
         Append(args, Arg(sNone, Expr("ExprBool", sTrue, <<>>, <<>>))))
  ELSE IF (curIs(p, "IDENT") \/ isHyphenatedKeyword(p)) /\ peekIs(p, "COLON")
  THEN With([r \in {parseExprValue(nextToken(nextToken(p)))} |->
          R(skipIf(r.p, "COMMA"), Append(args, Arg(p.cur.Literal, r.v)))])
  ELSE IF curIs(p, "IDENT") \/ curIs(p, "INT") \/ curIs(p, "STRING")
  THEN With([r \in {parseExprValue(p)} |->
          R(skipIf(r.p, "COMMA"), Append(args, Arg(<<>>, r.v)))])
  ELSE R(skipIf(nextToken(p), "COMMA"), args)

RECURSIVE parseDirectiveArgs(_, _)
parseDirectiveArgs(p, args) ==
  IF Running(p) /\ ~curIs(p, "RPAREN") /\ ~curIs(p, "EOF")
  THEN With([r \in {parseDirectiveArg(p, args)} |->
          IF Running(r.p) /\ Ctl(r.p) = Ctl(p) THEN R(Hung(r.p), r.v)
          ELSE parseDirectiveArgs(r.p, r.v)])
  ELSE R(p, args)

Directive(pos, name, args, bind) == [Pos |-> pos, Name |-> name, Args |-> args, Bind |-> bind]

\* the optional "as <name>" after a directive or a step
parseAs(p) ==
  IF curIs(p, "AS")
  THEN With([p1 \in {nextToken(p)} |->
          IF curIs(p1, "IDENT") THEN R(nextToken(p1), p1.cur.Literal) ELSE R(p1, <<>>)])
  ELSE R(p, <<>>)

parseDirective(p0) ==
  LET pos == p0.cur.Pos
      name == p0.cur.Literal IN
  With([p1 \in {nextToken(p0)} |->
     IF ~curIs(p1, "LPAREN") THEN R(p1, <<Directive(pos, name, <<>>, <<>>)>>)
     ELSE With([a \in {parseDirectiveArgs(nextToken(p1), <<>>)} |->
          With([b \in {parseAs(skipIf(a.p, "RPAREN"))} |->
             R(b.p, <<Directive(pos, name, a.v, b.v)>>)])])])

IsDirectiveStart(p) == curIs(p, "CACHE") \/ curIs(p, "CORS") \/ curIs(p, "AUTH")

\* the loop "for p.curIs(CACHE) || p.curIs(CORS) || p.curIs(AUTH)" of parseDefaults and parseRoute
RECURSIVE parseDirectives(_, _)
parseDirectives(p, ds) ==
  IF Running(p) /\ IsDirectiveStart(p)
  THEN With([d \in {parseDirective(p)} |->
          parseDirectives(skipNewlines(d.p), ds \o d.v)])
  ELSE R(p, ds)

parseDefaults(p0) ==
  LET pos == p0.cur.Pos IN
  With([r \in {parseDirectives(skipNewlines(nextToken(p0)), <<>>)} |->
     R(r.p, <<[Pos |-> pos, Directives |-> r.v]>>)])

(***************************************************************************)
(* Pipeline steps                                                          *)
(***************************************************************************)
parseDottedName(p) ==
  LET first == IF curIs(p, "IDENT") THEN <<p.cur.Literal>> ELSE <<>> IN
  With([r \in {dottedParts(skipIf(p, "IDENT"), first)} |->
     R(r.p, JoinDot(r.v))])

parseFieldValue(p) ==
  IF curIs(p, "STRING") THEN R(nextToken(p), p.cur.Literal) ELSE parseDottedName(p)

\* one iteration of the loop of parseBodyFields
parseBodyField(p, fields) ==
  LET key == IF curIs(p, "IDENT") THEN p.cur.Literal ELSE <<>> IN
  With([p1 \in {skipIf(p, "IDENT")} |->
  With([val \in {IF curIs(p1, "COLON") THEN parseFieldValue(nextToken(p1)) ELSE R(p1, <<>>)} |->
     R(skipIf(val.p, "COMMA"), Append(fields, [Key |-> key, Value |-> val.v]))])])

RECURSIVE bodyFieldsLoop(_, _)
bodyFieldsLoop(p, fields) ==
  IF Running(p) /\ ~curIs(p, "RBRACE") /\ ~curIs(p, "EOF")
  THEN With([r \in {parseBodyField(p, fields)} |->
          IF Running(r.p) /\ Ctl(r.p) = Ctl(p) THEN R(Hung(r.p), r.v)
          ELSE bodyFieldsLoop(r.p, r.v)])
  ELSE R(p, fields)

parseBodyFields(p) ==
  With([r \in {bodyFieldsLoop(nextToken(p), <<>>)} |->
     R(skipIf(r.p, "RBRACE"), r.v)])

parseErrorFlow(p0) ==
  LET pos == p0.cur.Pos IN
  With([p1 \in {nextToken(p0)} |->
  LET status == IF curIs(p1, "INT") THEN p1.cur.Literal ELSE <<>> IN
  With([p2 \in {skipIf(p1, "INT")} |->
  With([body \in {IF curIs(p2, "LBRACE") THEN parseBodyFields(p2) ELSE R(p2, <<>>)} |->
     R(body.p, <<[Pos |-> pos, Status |-> status, Body |-> body.v]>>)])])])

\* one iteration of the loop of parseInput
parseInputField(p, fields) ==
  LET name == IF curIs(p, "IDENT") THEN p.cur.Literal ELSE <<>> IN
  With([p1 \in {skipIf(p, "IDENT")} |->
  With([from \in {IF curIs(p1, "COLON") THEN parseDottedName(nextToken(p1)) ELSE R(p1, <<>>)} |->
     R(skipIf(from.p, "COMMA"), Append(fields, [Name |-> name, From |-> from.v]))])])

RECURSIVE inputLoop(_, _)
inputLoop(p, fields) ==
  IF Running(p) /\ ~curIs(p, "RPAREN") /\ ~curIs(p, "EOF")
  THEN With([r \in {parseInputField(p, fields)} |->
          IF Running(r.p) /\ Ctl(r.p) = Ctl(p) THEN R(Hung(r.p), r.v)
          ELSE inputLoop(r.p, r.v)])
  ELSE R(p, fields)

parseInput(p0) ==
  With([p1 \in {nextToken(p0)} |->
     IF ~curIs(p1, "LPAREN")
     THEN R(addError(p1, <<"expected '(' after 'input'">>), <<[Fields |-> <<>>]>>)
     ELSE With([r \in {inputLoop(nextToken(p1), <<>>)} |->
             R(skipIf(r.p, "RPAREN"), <<[Fields |-> r.v]>>)])])

\* one iteration of the argument loop of parseSingleConstraint
parseConstraintArg(p, args) ==
  With([arg \in {
            CASE curIs(p, "INT") -> Expr("ExprInt", <<>>, p.cur.Literal, <<>>)
               [] curIs(p, "STRING") -> Expr("ExprString", p.cur.Literal, <<>>, <<>>)
               [] curIs(p, "IDENT") -> Expr("ExprIdent", p.cur.Literal, <<>>, <<>>)
               [] OTHER -> ZeroExpr} |->
     R(skipIf(nextToken(p), "COMMA"), Append(args, arg))])

RECURSIVE constraintArgs(_, _)
constraintArgs(p, args) ==
  IF Running(p) /\ ~curIs(p, "RPAREN") /\ ~curIs(p, "EOF")
  THEN With([r \in {parseConstraintArg(p, args)} |-> constraintArgs(r.p, r.v)])
  ELSE R(p, args)

parseSingleConstraint(p) ==
  IF ~curIs(p, "IDENT") THEN R(p, Nil)
  ELSE With([p1 \in {nextToken(p)} |->
          IF curIs(p1, "LPAREN")
          THEN With([a \in {constraintArgs(nextToken(p1), <<>>)} |->
                  R(skipIf(a.p, "RPAREN"), <<[Name |-> p.cur.Literal, Args |-> a.v]>>)])
          ELSE R(p1, <<[Name |-> p.cur.Literal, Args |-> <<>>]>>)])

RECURSIVE moreConstraints(_, _)
moreConstraints(p, cs) ==
  IF Running(p) /\ curIs(p, "AMPERSAND")
  THEN With([c \in {parseSingleConstraint(nextToken(p))} |-> moreConstraints(c.p, cs \o c.v)])
  ELSE R(p, cs)

parseConstraints(p) ==
  With([c \in {parseSingleConstraint(p)} |-> moreConstraints(c.p, c.v)])

\* one iteration of the loop of parseValidate
parseValidateRule(p, rules) ==
  LET field == IF curIs(p, "IDENT") THEN p.cur.Literal ELSE <<>> IN
  With([p1 \in {skipIf(p, "IDENT")} |->
  With([cs \in {IF curIs(p1, "COLON") THEN parseConstraints(nextToken(p1)) ELSE R(p1, <<>>)} |->
     R(skipIf(cs.p, "COMMA"), Append(rules, [Field |-> field, Constraints |-> cs.v]))])])

RECURSIVE validateLoop(_, _)
validateLoop(p, rules) ==
  IF Running(p) /\ ~curIs(p, "RPAREN") /\ ~curIs(p, "EOF")
  THEN With([r \in {parseValidateRule(p, rules)} |->
          IF Running(r.p) /\ Ctl(r.p) = Ctl(p) THEN R(Hung(r.p), r.v)
          ELSE validateLoop(r.p, r.v)])
  ELSE R(p, rules)

parseValidate(p0) ==
  With([p1 \in {nextToken(p0)} |->
     IF ~curIs(p1, "LPAREN")
     THEN R(addError(p1, <<"expected '(' after 'validate'">>), <<[Rules |-> <<>>]>>)
     ELSE With([r \in {validateLoop(nextToken(p1), <<>>)} |->
             R(skipIf(r.p, "RPAREN"), <<[Rules |-> r.v]>>)])])

\* one iteration of the loop of parseTransform
parseTransformField(p, fields) ==
  LET name == IF curIs(p, "IDENT") THEN p.cur.Literal ELSE <<>> IN
  With([p1 \in {skipIf(p, "IDENT")} |->
     IF curIs(p1, "COLON") /\ curIs(nextToken(p1), "IDENT")
     THEN With([p2 \in {nextToken(p1)} |->
          LET func == p2.cur.Literal IN
          With([p3 \in {nextToken(p2)} |->
             IF curIs(p3, "LPAREN")
             THEN With([p4 \in {nextToken(p3)} |->
                  LET from == IF curIs(p4, "IDENT") THEN p4.cur.Literal ELSE <<>> IN
                  With([p5 \in {skipIf(skipIf(p4, "IDENT"), "RPAREN")} |->
                     R(skipIf(p5, "COMMA"),
                       Append(fields, [Name |-> name, Func |-> func, From |-> from]))])])
             ELSE R(skipIf(p3, "COMMA"),
                    Append(fields, [Name |-> name, Func |-> func, From |-> <<>>]))])])
     ELSE With([p2 \in {IF curIs(p1, "COLON") THEN nextToken(p1) ELSE p1} |->
             R(skipIf(p2, "COMMA"),
               Append(fields, [Name |-> name, Func |-> <<>>, From |-> <<>>]))])])

RECURSIVE transformLoop(_, _)
transformLoop(p, fields) ==
  IF Running(p) /\ ~curIs(p, "RPAREN") /\ ~curIs(p, "EOF")
  THEN With([r \in {parseTransformField(p, fields)} |->
          IF Running(r.p) /\ Ctl(r.p) = Ctl(p) THEN R(Hung(r.p), r.v)
          ELSE transformLoop(r.p, r.v)])
  ELSE R(p, fields)

parseTransform(p0) ==
  With([p1 \in {nextToken(p0)} |->
     IF ~curIs(p1, "LPAREN")
     THEN R(addError(p1, <<"expected '(' after 'transform'">>), <<[Fields |-> <<>>]>>)
     ELSE With([r \in {transformLoop(nextToken(p1), <<>>)} |->
             R(skipIf(r.p, "RPAREN"), <<[Fields |-> r.v]>>)])])

parseGuard(p0) ==
  With([p1 \in {nextToken(p0)} |->
  LET negated == curIs(p1, "BANG") IN
  With([p2 \in {skipIf(p1, "BANG")} |->
     IF curIs(p2, "IDENT")
     THEN With([r \in {dottedParts(nextToken(p2), <<p2.cur.Literal>>)} |->
             R(r.p, <<[Negated |-> negated, Expr |-> JoinDot(r.v)]>>)])
     ELSE R(p2, <<[Negated |-> negated, Expr |-> <<>>]>>)])])

isUpperCase(s) == IF Len(s) = 0 THEN FALSE ELSE s[1] \in Upper

PkgArg(name, value, isType, objectArgs) ==
  [Name |-> name, Value |-> value, IsType |-> isType, ObjectArgs |-> objectArgs]

\* one iteration of the object-shorthand loop of parsePkgCall
parseObjectField(p, fields) ==
  With([fs \in {IF curIs(p, "IDENT") THEN Append(fields, p.cur.Literal) ELSE fields} |->
     R(skipIf(skipIf(p, "IDENT"), "COMMA"), fs)])

RECURSIVE objectLoop(_, _)
objectLoop(p, fields) ==
  IF Running(p) /\ ~curIs(p, "RBRACE") /\ ~curIs(p, "EOF")
  THEN With([r \in {parseObjectField(p, fields)} |->
          IF Running(r.p) /\ Ctl(r.p) = Ctl(p) THEN R(Hung(r.p), r.v)
          ELSE objectLoop(r.p, r.v)])
  ELSE R(p, fields)

\* one iteration of the argument loop of parsePkgCall
parsePkgArg(p, args) ==
  IF curIs(p, "IDENT") /\ peekIs(p, "COLON") /\ ~isUpperCase(p.cur.Literal)
  THEN With([p1 \in {nextToken(nextToken(p))} |->
          R(skipIf(nextToken(p1), "COMMA"),
            Append(args, PkgArg(p.cur.Literal, p1.cur.Literal, FALSE, <<>>)))])
  ELSE IF curIs(p, "LBRACE")
  THEN With([o \in {objectLoop(nextToken(p), <<>>)} |->
          R(skipIf(skipIf(o.p, "RBRACE"), "COMMA"),
            Append(args, PkgArg(<<>>, <<>>, FALSE, o.v)))])
  ELSE With([arg \in {
                 CASE curIs(p, "IDENT") ->
                         PkgArg(<<>>, p.cur.Literal, isUpperCase(p.cur.Literal), <<>>)
                    [] curIs(p, "INT") \/ curIs(p, "STRING") ->
                         PkgArg(<<>>, p.cur.Literal, FALSE, <<>>)
                    [] OTHER -> PkgArg(<<>>, <<>>, FALSE, <<>>)} |->
          R(skipIf(nextToken(p), "COMMA"), Append(args, arg))])

RECURSIVE pkgArgsLoop(_, _)
pkgArgsLoop(p, args) ==
  IF Running(p) /\ ~curIs(p, "RPAREN") /\ ~curIs(p, "EOF")
  THEN With([r \in {parsePkgArg(p, args)} |->
          IF Running(r.p) /\ Ctl(r.p) = Ctl(p) THEN R(Hung(r.p), r.v)
          ELSE pkgArgsLoop(r.p, r.v)])
  ELSE R(p, args)

parsePkgCall(p0) ==
  LET pkg == p0.cur.Literal IN
  With([p1 \in {nextToken(p0)} |->
     IF ~curIs(p1, "LPAREN") THEN R(p1, <<[Pkg |-> pkg, Args |-> <<>>]>>)
     ELSE With([r \in {pkgArgsLoop(nextToken(p1), <<>>)} |->
             R(skipIf(r.p, "RPAREN"), <<[Pkg |-> pkg, Args |-> r.v]>>)])])

parseRespond(p0) ==
  With([p1 \in {nextToken(p0)} |->
  LET status == IF curIs(p1, "INT") THEN p1.cur.Literal ELSE <<>> IN
  With([p2 \in {skipIf(p1, "INT")} |->
  With([body \in {IF curIs(p2, "LBRACE") THEN parseBodyFields(p2) ELSE R(p2, <<>>)} |->
  With([p3 \in {skipIf(body.p, "WITH")} |->
  With([p4 \in {IF curIs(body.p, "WITH") THEN skipIf(p3, "HEADERS") ELSE p3} |->
  With([headers \in {
                IF curIs(body.p, "WITH") /\ curIs(p3, "HEADERS") /\ curIs(p4, "LBRACE")
                 THEN parseBodyFields(p4) ELSE R(p4, <<>>)} |->
     R(headers.p, <<[Status |-> status, Body |-> body.v, Headers |-> headers.v]>>)])])])])])])

(***************************************************************************)
(* match                                                                   *)
(***************************************************************************)
Pattern(kind, value, values, rangeMin, rangeMax, regex, isDefault) ==
  [Kind |-> kind, Value |-> value, Values |-> values, RangeMin |-> rangeMin,
   RangeMax |-> rangeMax, Regex |-> regex, IsDefault |-> isDefault]

\* the zero value ast.Pattern{}: PatternLiteral is the first PatternKind
ZeroPattern == Pattern("PatternLiteral", <<>>, <<>>, <<>>, <<>>, <<>>, FALSE)

\* the loop "for p.curIs(token.COMMA)" of the multi-value pattern
RECURSIVE multiValues(_, _)
multiValues(p, values) ==
  IF Running(p) /\ curIs(p, "COMMA")
  THEN With([p1 \in {nextToken(p)} |->
          IF curIs(p1, "STRING") THEN multiValues(nextToken(p1), Append(values, p1.cur.Literal))
          ELSE multiValues(p1, values)])
  ELSE R(p, values)

\* the switch of parsePattern, between SetRegexMode(true) and the deferred SetRegexMode(false)
parsePatternSwitch(p) ==
  CASE curIs(p, "REGEX") ->
         R(nextToken(p), [ZeroPattern EXCEPT !.Kind = "PatternRegex", !.Regex = p.cur.Literal])
    [] curIs(p, "STRING") ->
         LET first == p.cur.Literal IN
         With([p1 \in {nextToken(p)} |->
            IF curIs(p1, "COMMA")
            THEN With([r \in {multiValues(p1, <<first>>)} |->
                    R(r.p, [ZeroPattern EXCEPT !.Kind = "PatternMulti", !.Values = r.v])])
            ELSE R(p1, [ZeroPattern EXCEPT !.Value = first])])
    [] curIs(p, "INT") ->
         LET first == p.cur.Literal IN
         With([p1 \in {nextToken(p)} |->
         With([p2 \in {nextToken(p1)} |->
            IF curIs(p1, "RANGE") /\ curIs(p2, "INT")
            THEN R(nextToken(p2), [ZeroPattern EXCEPT !.Kind = "PatternRange",
                                     !.RangeMin = first, !.RangeMax = p2.cur.Literal])
            ELSE R(IF curIs(p1, "RANGE") THEN p2 ELSE p1, [ZeroPattern EXCEPT !.Value = first])])])
    [] curIs(p, "IDENT") -> R(nextToken(p), [ZeroPattern EXCEPT !.Value = p.cur.Literal])
    [] OTHER -> R(p, ZeroPattern)

setRegexMode(p, on) == [p EXCEPT !.l = SetRegexMode(p.l, on)]

\* a variant without the deferred SetRegexMode(false)
parsePatternNoRestore(p) == parsePatternSwitch(setRegexMode(p, TRUE))

parsePattern(p) ==
  With([r \in {parsePatternSwitch(setRegexMode(p, TRUE))} |->
     R(setRegexMode(r.p, FALSE), r.v)])

MatchArm(pattern, step, isDefault, errorFlow, errorOnly, varRef) ==
  [Pattern |-> pattern, Step |-> step, IsDefault |-> isDefault, ErrorFlow |-> errorFlow,
   ErrorOnly |-> errorOnly, VarRef |-> varRef]

parseMatchArm(p0) ==
  LET isDefault == curIs(p0, "UNDERSCORE") IN
  With([pat \in {
            IF isDefault
             THEN R(nextToken(p0), [ZeroPattern EXCEPT !.Kind = "PatternWildcard", !.IsDefault = TRUE])
             ELSE parsePattern(p0)} |->
  LET p1 == pat.p IN
     IF ~curIs(p1, "COLON")
     THEN R(skipToNextStatement(addError(p1, <<"expected ':' after match pattern">>)), Nil)
     ELSE
       With([p2 \in {nextToken(p1)} |->
          IF curIs(p2, "ERROR")
          THEN With([ef \in {parseErrorFlow(p2)} |->
                  R(ef.p, <<MatchArm(pat.v, Nil, isDefault, ef.v, TRUE, <<>>)>>)])
          ELSE
            LET isCall == curIs(p2, "IDENT") /\ peekIs(p2, "LPAREN")
                isRef == curIs(p2, "IDENT") /\ ~peekIs(p2, "LPAREN") IN
            With([call \in {IF isCall THEN parsePkgCall(p2) ELSE R(skipIf(p2, "IDENT"), Nil)} |->
            LET varRef == IF isRef THEN p2.cur.Literal ELSE <<>> IN
            With([ef \in {IF curIs(call.p, "ERROR") THEN parseErrorFlow(call.p) ELSE R(call.p, Nil)} |->
               R(ef.p, <<MatchArm(pat.v, call.v, isDefault, ef.v, FALSE, varRef)>>)])])])])

RECURSIVE matchArms(_, _)
matchArms(p, arms) ==
  IF Running(p) /\ ~curIs(p, "RBRACE") /\ ~curIs(p, "EOF")
  THEN With([a \in {parseMatchArm(p)} |->
       With([q \in {skipNewlines(a.p)} |->
          IF Running(q) /\ Ctl(q) = Ctl(p) THEN R(Hung(q), arms \o a.v)
          ELSE matchArms(q, arms \o a.v)])])
  ELSE R(p, arms)

parseMatch(p0) ==
  With([p1 \in {nextToken(p0)} |->
  With([on \in {IF curIs(p1, "IDENT") THEN parseDottedName(p1) ELSE R(p1, <<>>)} |->
     IF ~curIs(on.p, "LBRACE")
     THEN R(addError(on.p, <<"expected '{' after match expression">>), <<[On |-> on.v, Arms |-> <<>>]>>)
     ELSE With([r \in {matchArms(skipNewlines(nextToken(on.p)), <<>>)} |->
             R(skipIf(r.p, "RBRACE"), <<[On |-> on.v, Arms |-> r.v]>>)])])])

(***************************************************************************)
(* Routes and the file                                                     *)
(***************************************************************************)
\* a variant that loses the body of a guard step
PipelineStepNoGuard(pos, kind, body, bind, errorFlow) ==
  [Pos |-> pos, Kind |-> kind,
   Input |-> IF kind = "StepInput" THEN body ELSE Nil,
   Validate |-> IF kind = "StepValidate" THEN body ELSE Nil,
   Transform |-> IF kind = "StepTransform" THEN body ELSE Nil,
   Guard |-> Nil,
   Match |-> IF kind = "StepMatch" THEN body ELSE Nil,
   PkgCall |-> IF kind = "StepPkgCall" THEN body ELSE Nil,
   Respond |-> IF kind = "StepRespond" THEN body ELSE Nil,
   Bind |-> bind, ErrorFlow |-> errorFlow]

PipelineStep(pos, kind, body, bind, errorFlow) ==
  [Pos |-> pos, Kind |-> kind,
   Input |-> IF kind = "StepInput" THEN body ELSE Nil,
   Validate |-> IF kind = "StepValidate" THEN body ELSE Nil,
   Transform |-> IF kind = "StepTransform" THEN body ELSE Nil,
   Guard |-> IF kind = "StepGuard" THEN body ELSE Nil,
   Match |-> IF kind = "StepMatch" THEN body ELSE Nil,
   PkgCall |-> IF kind = "StepPkgCall" THEN body ELSE Nil,
   Respond |-> IF kind = "StepRespond" THEN body ELSE Nil,
   Bind |-> bind, ErrorFlow |-> errorFlow]

StepKindOf(t) ==
  CASE t = "INPUT" -> "StepInput"
    [] t = "VALIDATE" -> "StepValidate"
    [] t = "TRANSFORM" -> "StepTransform"
    [] t = "GUARD" -> "StepGuard"
    [] t = "MATCH" -> "StepMatch"
    [] t = "RESPOND" -> "StepRespond"
    [] t = "IDENT" -> "StepPkgCall"
    [] OTHER -> "none"

parsePipelineStep(p0) ==
  LET pos == p0.cur.Pos IN
  With([p1 \in {nextToken(p0)} |->
  With([kind \in {StepKindOf(p1.cur.Type)} |->
     IF kind = "none"
     THEN R(skipToNextStatement(addError(p1, <<"expected step keyword, got ">> \o TypeString(p1.cur.Type)
                                        \o <<" ", "(">> \o Quote(p1.cur.Literal) \o <<")">>)), Nil)
     ELSE
       With([body \in {
                  CASE kind = "StepInput" -> parseInput(p1)
                     [] kind = "StepValidate" -> parseValidate(p1)
                     [] kind = "StepTransform" -> parseTransform(p1)
                     [] kind = "StepGuard" -> parseGuard(p1)
                     [] kind = "StepMatch" -> parseMatch(p1)
                     [] kind = "StepRespond" -> parseRespond(p1)
                     [] kind = "StepPkgCall" -> parsePkgCall(p1)} |->
       With([bind \in {parseAs(body.p)} |->
       With([ef \in {IF curIs(bind.p, "ERROR") THEN parseErrorFlow(bind.p) ELSE R(bind.p, Nil)} |->
          R(ef.p, <<PipelineStep(pos, kind, body.v, bind.v, ef.v)>>)])])])])])

parsePath(p) ==
  With([r \in {collectLine(p, <<>>, FALSE)} |-> R(r.p, Join(r.v))])

\* the loop "for p.curIs(token.PIPE)" of parseRoute
RECURSIVE parseSteps(_, _)
parseSteps(p, steps) ==
  IF Running(p) /\ curIs(p, "PIPE")
  THEN With([st \in {parsePipelineStep(p)} |->
          parseSteps(skipNewlines(st.p), steps \o st.v)])
  ELSE R(p, steps)

parseRoute(p0) ==
  LET pos == p0.cur.Pos
      method == p0.cur.Literal IN
  With([path \in {parsePath(nextToken(p0))} |->
  With([ds \in {parseDirectives(skipNewlines(path.p), <<>>)} |->
  With([steps \in {parseSteps(ds.p, <<>>)} |->
     R(steps.p, <<[Pos |-> pos, Method |-> method, Path |-> path.v,
                   Directives |-> ds.v, Steps |-> steps.v]>>)])])])

\* one iteration of the loop of ParseFile, with the skipNewlines that ends it
ParseFileIter(p, f) ==
  With([r \in {
          CASE curIs(p, "IMPORT") ->
                  With([imp \in {parseImport(p)} |-> R(imp.p, [f EXCEPT !.Imports = @ \o imp.v])])
             [] curIs(p, "TYPE") ->
                  With([td \in {parseType(p)} |-> R(td.p, [f EXCEPT !.Types = @ \o td.v])])
             [] curIs(p, "DEFAULTS") ->
                  With([d \in {parseDefaults(p)} |-> R(d.p, [f EXCEPT !.Defaults = d.v])])
             [] IsHTTPMethod(p.cur.Type) ->
                  With([route \in {parseRoute(p)} |-> R(route.p, [f EXCEPT !.Routes = @ \o route.v])])
             [] OTHER ->
                  R(nextToken(addError(p, <<"unexpected token ">> \o TypeString(p.cur.Type)
                                       \o <<" ", "(">> \o Quote(p.cur.Literal) \o <<")">>)), f)} |->
     R(skipNewlines(r.p), r.v)])

(***************************************************************************)
(* gen package.  A Go map is a function on its keys; a nil or empty map is *)
(* the empty function <<>>.  A pointer is Nil or a one-element sequence.   *)
(***************************************************************************)
MapSet(m, k, v) == [x \in (DOMAIN m) \cup {k} |-> IF x = k THEN v ELSE m[x]]

RECURSIVE AllDigits(_)
AllDigits(s) == s = <<>> \/ (isDigit(Head(s)) /\ AllDigits(Tail(s)))

RECURSIVE DigitsValue(_)
DigitsValue(s) == IF s = <<>> THEN 0 ELSE DigitsValue(SubSeq(s, 1, Len(s) - 1)) * 10 + ValueOf(s[Len(s)])

\* strconv.Atoi: an optional sign and at least one decimal digit
Atoi(s) ==
  LET body == IF s # <<>> /\ Head(s) \in {"+", "-"} THEN Tail(s) ELSE s
  IN IF body # <<>> /\ AllDigits(body)
     THEN [ok |-> TRUE, v |-> IF Head(s) = "-" THEN 0 - DigitsValue(body) ELSE DigitsValue(body)]
     ELSE [ok |-> FALSE, v |-> 0]

typeNames == {sInt, sString, sBool, sFloat, sDatetime}

intPtr(v) == <<v>>
boolPtr(v) == <<v>>

\* strings.Index(s, "("): the 0-based offset of the first "(", or -1
IndexParen(s) ==
  IF \E i \in 1..Len(s) : s[i] = "("
  THEN (CHOOSE i \in 1..Len(s) : s[i] = "(" /\ \A j \in 1..(i - 1) : s[j] # "(") - 1
  ELSE 0 - 1

TrimSuffixParen(s) == IF s # <<>> /\ s[Len(s)] = ")" THEN SubSeq(s, 1, Len(s) - 1) ELSE s

\* the etag is a string or an *ir.ETagFn
genCacheExpr(expr) ==
  With([idx \in {IndexParen(expr.StrVal)} |->
     IF expr.Kind = "ExprFuncCall" /\ idx # 0 - 1
     THEN [Fn |-> SubSeq(expr.StrVal, 1, idx),
           From |-> TrimSuffixParen(SubSeq(expr.StrVal, idx + 2, Len(expr.StrVal)))]
     ELSE [Str |-> expr.StrVal]])

ZeroCache == [MaxAge |-> Nil, SMaxAge |-> Nil, Visibility |-> <<>>, NoCache |-> Nil,
              NoStore |-> Nil, ETag |-> Nil, LastModified |-> <<>>, Vary |-> <<>>]

genCacheArg(c, arg) ==
  CASE arg.Name = sMaxAge ->
         IF Atoi(arg.Value.IntVal).ok THEN [c EXCEPT !.MaxAge = intPtr(Atoi(arg.Value.IntVal).v)] ELSE c
    [] arg.Name = sSMaxAge ->
         IF Atoi(arg.Value.IntVal).ok THEN [c EXCEPT !.SMaxAge = intPtr(Atoi(arg.Value.IntVal).v)] ELSE c
    [] arg.Name = sEtag -> [c EXCEPT !.ETag = <<genCacheExpr(arg.Value)>>]
    [] arg.Name = sLastModified -> [c EXCEPT !.LastModified = arg.Value.StrVal]
    [] arg.Name = sVary -> [c EXCEPT !.Vary = arg.Value.ListVal]
    [] arg.Name = <<>> ->
         CASE arg.Value.StrVal = sPublic -> [c EXCEPT !.Visibility = sPublic]
           [] arg.Value.StrVal = sPrivate -> [c EXCEPT !.Visibility = sPrivate]
           [] arg.Value.StrVal = sNoCache -> [c EXCEPT !.NoCache = boolPtr(TRUE)]
           [] arg.Value.StrVal = sNoStore -> [c EXCEPT !.NoStore = boolPtr(TRUE)]
           [] OTHER -> c
    [] OTHER -> c

RECURSIVE genCacheArgs(_, _)
genCacheArgs(c, args) ==
  IF args = <<>> THEN c ELSE genCacheArgs(genCacheArg(c, Head(args)), Tail(args))

genCache(dir) == <<genCacheArgs(ZeroCache, dir.Args)>>

ZeroCORS == [Origins |-> <<>>, Methods |-> <<>>, Headers |-> <<>>, ExposeHeaders |-> <<>>,
             MaxAge |-> Nil, Credentials |-> Nil]

genCORSArg(c, arg) ==
  CASE arg.Name = sOrigins -> [c EXCEPT !.Origins = arg.Value.ListVal]
    [] arg.Name = sMethods -> [c EXCEPT !.Methods = arg.Value.ListVal]
    [] arg.Name = sHeaders -> [c EXCEPT !.Headers = arg.Value.ListVal]
    [] arg.Name = sExposeHeaders -> [c EXCEPT !.ExposeHeaders = arg.Value.ListVal]
    [] arg.Name = sMaxAge ->
         IF Atoi(arg.Value.IntVal).ok THEN [c EXCEPT !.MaxAge = intPtr(Atoi(arg.Value.IntVal).v)] ELSE c
    [] arg.Name = <<>> ->
         IF arg.Value.StrVal = sCredentials THEN [c EXCEPT !.Credentials = boolPtr(TRUE)] ELSE c
    [] OTHER -> c

RECURSIVE genCORSArgs(_, _)
genCORSArgs(c, args) ==
  IF args = <<>> THEN c ELSE genCORSArgs(genCORSArg(c, Head(args)), Tail(args))

genCORS(dir) == <<genCORSArgs(ZeroCORS, dir.Args)>>

ZeroAuth == [Method |-> <<>>, Roles |-> <<>>, Permissions |-> <<>>, Bind |-> <<>>]

genAuthArg(a, arg) ==
  CASE arg.Name = sRoles -> [a EXCEPT !.Roles = arg.Value.ListVal]
    [] arg.Name = sPermissions -> [a EXCEPT !.Permissions = arg.Value.ListVal]
    [] arg.Name = <<>> -> IF a.Method = <<>> THEN [a EXCEPT !.Method = arg.Value.StrVal] ELSE a
    [] OTHER -> a

RECURSIVE genAuthArgs(_, _)
genAuthArgs(a, args) ==
  IF args = <<>> THEN a ELSE genAuthArgs(genAuthArg(a, Head(args)), Tail(args))

genAuth(dir) ==
  With([a \in {genAuthArgs(ZeroAuth, dir.Args)} |->
     <<IF dir.Bind # <<>> THEN [a EXCEPT !.Bind = dir.Bind] ELSE a>>])

isNoneDirective(dir) == \E i \in 1..Len(dir.Args) : dir.Args[i].Name = sNone

genDefaultsDirective(d, dir) ==
  CASE dir.Name = sCache -> [d EXCEPT !.Cache = genCache(dir)]
    [] dir.Name = sCors -> [d EXCEPT !.CORS = genCORS(dir)]
    [] dir.Name = sAuth -> [d EXCEPT !.Auth = genAuth(dir)]
    [] OTHER -> d

RECURSIVE genDefaultsDirectives(_, _)
genDefaultsDirectives(d, dirs) ==
  IF dirs = <<>> THEN d ELSE genDefaultsDirectives(genDefaultsDirective(d, Head(dirs)), Tail(dirs))

genDefaults(block) ==
  <<genDefaultsDirectives([Cache |-> Nil, CORS |-> Nil, Auth |-> Nil], block.Directives)>>

\* Route.CORS is an interface{}: the nil interface, or an interface holding a
\* *ir.CORS that is itself nil (ptr = Nil) or points to a CORS (ptr = <<c>>)
NilInterface == [type |-> "nil", ptr |-> Nil]

\* a variant that stores a nil pointer as the nil interface
CORSInterfaceUntyped(ptr) ==
  IF ptr = Nil THEN NilInterface ELSE [type |-> "*ir.CORS", ptr |-> ptr]

\* an interface{} holding a *ir.CORS: it is not the nil interface even when
\* the pointer is nil
CORSInterface(ptr) == [type |-> "*ir.CORS", ptr |-> ptr]

\* the directive switch of genRoute
genRouteDirective(r, dir) ==
  CASE dir.Name = sCache -> [r EXCEPT !.Cache = genCache(dir)]
    [] dir.Name = sCors ->
         IF isNoneDirective(dir) THEN [r EXCEPT !.CORS = CORSInterface(Nil)]
         ELSE [r EXCEPT !.CORS = CORSInterface(genCORS(dir))]
    [] dir.Name = sAuth ->
         IF isNoneDirective(dir) THEN r
         ELSE [r EXCEPT !.Auth = genAuth(dir)]
    [] OTHER -> r

RECURSIVE genRouteDirectives(_, _)
genRouteDirectives(r, dirs) ==
  IF dirs = <<>> THEN r ELSE genRouteDirectives(genRouteDirective(r, Head(dirs)), Tail(dirs))

\* a map[string]string built from body fields, nil when there are none
RECURSIVE bodyMap(_, _)
bodyMap(m, fields) ==
  IF fields = <<>> THEN m
  ELSE bodyMap(MapSet(m, Head(fields).Key, Head(fields).Value), Tail(fields))

\* ef is an *ast.ErrorFlow; the result is an *ir.ErrorResponse
genErrorResponse(ef) ==
  IF ef = Nil THEN Nil
  ELSE <<[Status |-> Atoi(ef[1].Status).v, Body |-> bodyMap(<<>>, ef[1].Body)]>>

RECURSIVE inputMap(_, _)
inputMap(m, fields) ==
  IF fields = <<>> THEN m
  ELSE inputMap(MapSet(m, Head(fields).Name, [From |-> Head(fields).From]), Tail(fields))

genInput(input) == IF input = Nil THEN <<>> ELSE inputMap(<<>>, input[1].Fields)

ZeroValidateRule == [Type |-> <<>>, Min |-> Nil, Max |-> Nil, Format |-> <<>>]

genConstraint(vr, c) ==
  CASE c.Name \in typeNames -> [vr EXCEPT !.Type = c.Name]
    [] c.Name = sMin ->
         IF Len(c.Args) > 0 /\ Atoi(c.Args[1].IntVal).ok
         THEN [vr EXCEPT !.Min = intPtr(Atoi(c.Args[1].IntVal).v)] ELSE vr
    [] c.Name = sMax ->
         IF Len(c.Args) > 0 /\ Atoi(c.Args[1].IntVal).ok
         THEN [vr EXCEPT !.Max = intPtr(Atoi(c.Args[1].IntVal).v)] ELSE vr
    [] c.Name = sFormat ->
         IF Len(c.Args) > 0 THEN [vr EXCEPT !.Format = c.Args[1].StrVal] ELSE vr
    [] OTHER -> vr

RECURSIVE genConstraints(_, _)
genConstraints(vr, cs) ==
  IF cs = <<>> THEN vr ELSE genConstraints(genConstraint(vr, Head(cs)), Tail(cs))

RECURSIVE rulesMap(_, _)
rulesMap(m, rules) ==
  IF rules = <<>> THEN m
  ELSE rulesMap(MapSet(m, Head(rules).Field, genConstraints(ZeroValidateRule, Head(rules).Constraints)),
                Tail(rules))

genValidate(step) ==
  IF step.Validate = Nil THEN Nil
  ELSE <<[Rules |-> rulesMap(<<>>, step.Validate[1].Rules),
          Error |-> genErrorResponse(step.ErrorFlow)]>>

\* a variant that never makes a cast entry
genTransformFieldFn(f) == [Cast |-> <<>>, Fn |-> f.Func, From |-> f.From]

genTransformField(f) ==
  IF f.Func \in typeNames THEN [Cast |-> f.Func, Fn |-> <<>>, From |-> f.From]
  ELSE [Cast |-> <<>>, Fn |-> f.Func, From |-> f.From]

RECURSIVE transformMap(_, _)
transformMap(m, fields) ==
  IF fields = <<>> THEN m
  ELSE transformMap(MapSet(m, Head(fields).Name, genTransformField(Head(fields))), Tail(fields))

genTransform(t) == IF t = Nil THEN <<>> ELSE transformMap(<<>>, t[1].Fields)

genGuard(step) ==
  [kind |-> "GuardStep",
   Guard |-> IF step.Guard[1].Negated THEN [Not |-> step.Guard[1].Expr] ELSE [Str |-> step.Guard[1].Expr],
   Error |-> genErrorResponse(step.ErrorFlow)]

RECURSIVE dataMap(_, _)
dataMap(m, ks) == IF ks = <<>> THEN m ELSE dataMap(MapSet(m, Head(ks), Head(ks)), Tail(ks))

genPkgInputArg(input, arg) ==
  IF arg.Name # <<>> THEN MapSet(input, arg.Name, [Str |-> arg.Value])
  ELSE IF arg.IsType THEN MapSet(input, sType, [Str |-> arg.Value])
  ELSE IF Len(arg.ObjectArgs) > 0 THEN MapSet(input, sData, [Map |-> dataMap(<<>>, arg.ObjectArgs)])
  ELSE IF arg.Value # <<>>
  THEN IF sType \in DOMAIN input THEN MapSet(input, sId, [Str |-> arg.Value])
       ELSE MapSet(input, arg.Value, [Str |-> arg.Value])
  ELSE input

RECURSIVE genPkgInputArgs(_, _)
genPkgInputArgs(input, args) ==
  IF args = <<>> THEN input ELSE genPkgInputArgs(genPkgInputArg(input, Head(args)), Tail(args))

genPkgInput(call) == genPkgInputArgs(<<>>, call.Args)

genPkgCall(step) ==
  [kind |-> "PkgStep", Bind |-> step.Bind, Use |-> step.PkgCall[1].Pkg,
   Input |-> genPkgInput(step.PkgCall[1]), Error |-> genErrorResponse(step.ErrorFlow)]

genPattern(pat) ==
  CASE pat.Kind = "PatternLiteral" ->
         IF Atoi(pat.Value).ok THEN [kind |-> "PatternValue", Value |-> [Int |-> Atoi(pat.Value).v]]
         ELSE IF pat.Value = sTrue \/ pat.Value = sFalse
         THEN [kind |-> "PatternValue", Value |-> [Bool |-> pat.Value = sTrue]]
         ELSE IF pat.Value = sNull THEN [kind |-> "PatternValue", Value |-> [Null |-> TRUE]]
         ELSE [kind |-> "PatternValue", Value |-> [Str |-> pat.Value]]
    [] pat.Kind = "PatternMulti" -> [kind |-> "PatternIn", In |-> pat.Values]
    [] pat.Kind = "PatternRange" ->
         [kind |-> "PatternRange", Min |-> Atoi(pat.RangeMin).v, Max |-> Atoi(pat.RangeMax).v]
    [] pat.Kind = "PatternRegex" -> [kind |-> "PatternRegex", Regex |-> pat.Regex]
    [] OTHER -> [kind |-> "nil"]

IRMatchArm(pattern, use, input, error, ref) ==
  [kind |-> "MatchArm", Pattern |-> pattern, Use |-> use, Input |-> input, Error |-> error, Ref |-> ref]

genMatchArmStep(arm) ==
  IRMatchArm([kind |-> "nil"],
             IF arm.Step # Nil THEN arm.Step[1].Pkg ELSE <<>>,
             IF arm.Step # Nil THEN genPkgInput(arm.Step[1]) ELSE <<>>,
             genErrorResponse(arm.ErrorFlow), <<>>)

\* a variant that lowers a wildcard arm like any other arm
genMatchArmLiteral(mb, arm) ==
  [mb EXCEPT !.Arms = Append(@,
     IRMatchArm(genPattern(arm.Pattern),
                IF arm.Step # Nil THEN arm.Step[1].Pkg ELSE <<>>,
                IF arm.Step # Nil THEN genPkgInput(arm.Step[1]) ELSE <<>>,
                genErrorResponse(arm.ErrorFlow),
                IF arm.Step = Nil /\ arm.VarRef # <<>> THEN arm.VarRef ELSE <<>>))]

\* one iteration of the arm loop of genMatch, on the ir.MatchBlock mb
genMatchArm(mb, arm) ==
  IF arm.IsDefault
  THEN IF arm.ErrorOnly /\ arm.ErrorFlow # Nil
       THEN [mb EXCEPT !.Default = <<[kind |-> "MatchDefaultError",
                                      Error |-> genErrorResponse(arm.ErrorFlow)]>>]
       ELSE IF arm.VarRef # <<>>
       THEN [mb EXCEPT !.Default = <<[kind |-> "ref", Ref |-> arm.VarRef]>>]
       ELSE IF arm.Step # Nil
       THEN [mb EXCEPT !.Default = <<genMatchArmStep(arm)>>]
       ELSE mb
  ELSE [mb EXCEPT !.Arms = Append(@,
          IRMatchArm(genPattern(arm.Pattern),
                     IF arm.Step # Nil THEN arm.Step[1].Pkg ELSE <<>>,
                     IF arm.Step # Nil THEN genPkgInput(arm.Step[1]) ELSE <<>>,
                     genErrorResponse(arm.ErrorFlow),
                     IF arm.Step = Nil /\ arm.VarRef # <<>> THEN arm.VarRef ELSE <<>>))]

RECURSIVE genMatchArms(_, _)
genMatchArms(mb, arms) ==
  IF arms = <<>> THEN mb ELSE genMatchArms(genMatchArm(mb, Head(arms)), Tail(arms))

genMatch(step) ==
  [kind |-> "MatchProcessStep", Bind |-> step.Bind,
   Match |-> genMatchArms([On |-> step.Match[1].On, Arms |-> <<>>, Default |-> Nil], step.Match[1].Arms),
   Error |-> genErrorResponse(step.ErrorFlow)]

genRespond(r) ==
  IF r = Nil THEN Nil
  ELSE <<[Status |-> Atoi(r[1].Status).v, Body |-> bodyMap(<<>>, r[1].Body),
          Headers |-> bodyMap(<<>>, r[1].Headers)]>>

\* a variant that puts a guard step in front of the steps collected so far
genRouteStepGuardFirst(r, step) ==
  CASE step.Kind = "StepInput" -> [r EXCEPT !.Input = genInput(step.Input)]
    [] step.Kind = "StepValidate" -> [r EXCEPT !.Validate = genValidate(step)]
    [] step.Kind = "StepTransform" -> [r EXCEPT !.TransformIn = genTransform(step.Transform)]
    [] step.Kind = "StepGuard" -> [r EXCEPT !.steps = <<genGuard(step)>> \o @]
    [] step.Kind = "StepMatch" -> [r EXCEPT !.steps = Append(@, genMatch(step))]
    [] step.Kind = "StepPkgCall" -> [r EXCEPT !.steps = Append(@, genPkgCall(step))]
    [] step.Kind = "StepRespond" -> [r EXCEPT !.Output = genRespond(step.Respond)]

\* the step switch of genRoute; processSteps travels in r.steps until the end
genRouteStep(r, step) ==
  CASE step.Kind = "StepInput" -> [r EXCEPT !.Input = genInput(step.Input)]
    [] step.Kind = "StepValidate" -> [r EXCEPT !.Validate = genValidate(step)]
    [] step.Kind = "StepTransform" -> [r EXCEPT !.TransformIn = genTransform(step.Transform)]
    [] step.Kind = "StepGuard" -> [r EXCEPT !.steps = Append(@, genGuard(step))]
    [] step.Kind = "StepMatch" -> [r EXCEPT !.steps = Append(@, genMatch(step))]
    [] step.Kind = "StepPkgCall" -> [r EXCEPT !.steps = Append(@, genPkgCall(step))]
    [] step.Kind = "StepRespond" -> [r EXCEPT !.Output = genRespond(step.Respond)]

RECURSIVE genRouteSteps(_, _)
genRouteSteps(r, steps) ==
  IF steps = <<>> THEN r ELSE genRouteSteps(genRouteStep(r, Head(steps)), Tail(steps))

genRoute(route) ==
  LET r0 == [RouteInfo |-> <<[Method |-> route.Method, Path |-> route.Path]>>,
             Auth |-> Nil, Cache |-> Nil, CORS |-> NilInterface, Input |-> <<>>,
             Validate |-> Nil, TransformIn |-> <<>>, Process |-> Nil, Output |-> Nil,
             steps |-> <<>>] IN
  With([r \in {genRouteSteps(genRouteDirectives(r0, route.Directives), route.Steps)} |->
     [RouteInfo |-> r.RouteInfo, Auth |-> r.Auth, Cache |-> r.Cache, CORS |-> r.CORS,
      Input |-> r.Input, Validate |-> r.Validate, TransformIn |-> r.TransformIn,
      Process |-> IF Len(r.steps) > 0 THEN <<[Steps |-> r.steps]>> ELSE Nil,
      Output |-> r.Output]])

RECURSIVE importsMap(_, _)
importsMap(m, imports) ==
  IF imports = <<>> THEN m
  ELSE LET imp == Head(imports)
       IN importsMap(MapSet(m, imp.Alias,
                            [Source |-> imp.Source,
                             Version |-> IF imp.Local THEN <<>> ELSE imp.Version,
                             Local |-> imp.Local]),
                     Tail(imports))

RECURSIVE typeFieldsMap(_, _)
typeFieldsMap(m, fields) ==
  IF fields = <<>> THEN m
  ELSE typeFieldsMap(MapSet(m, Head(fields).Name, Head(fields).TypeName), Tail(fields))

RECURSIVE typesMap(_, _)
typesMap(m, types) ==
  IF types = <<>> THEN m
  ELSE typesMap(MapSet(m, Head(types).Name, typeFieldsMap(<<>>, Head(types).Fields)),
                Tail(types))

Generate(f) ==
  [Version |-> "0.1",
   Imports |-> importsMap(<<>>, f.Imports),
   Types |-> typesMap(<<>>, f.Types),
   Defaults |-> IF f.Defaults # Nil THEN genDefaults(f.Defaults[1]) ELSE Nil,
   Routes |-> [i \in 1..Len(f.Routes) |-> genRoute(f.Routes[i])]]

\* genGuard, genMatch and genPkgCall read step.Guard, step.Match and
\* step.PkgCall without a nil check: a nil pointer there is a run-time panic
NilDereference(step) ==
  \/ step.Kind = "StepGuard" /\ step.Guard = Nil
  \/ step.Kind = "StepMatch" /\ step.Match = Nil
  \/ step.Kind = "StepPkgCall" /\ step.PkgCall = Nil

GeneratePanics(f) ==
  \E i \in 1..Len(f.Routes) :
     \E j \in 1..Len(f.Routes[i].Steps) : NilDereference(f.Routes[i].Steps[j])

(***************************************************************************)
(* encoding/json on ir.Route: the keys of the JSON object of one route.    *)
(* A field tagged omitempty is left out when it is a nil pointer, a nil    *)
(* interface or an empty map; an interface holding a nil pointer is not    *)
(* empty and is written as null.  Values below the route level are kept as *)
(* IR values.                                                              *)
(***************************************************************************)
JNull == [json |-> "null"]
JValue(v) == [json |-> "value", v |-> v]

JPtr(ptr) == IF ptr = Nil THEN JNull ELSE JValue(ptr[1])

Field(present, key, value) == IF present THEN (key :> value) ELSE <<>>

MarshalRoute(r) ==
  Field(TRUE, "route", JPtr(r.RouteInfo))
  @@ Field(r.Auth # Nil, "auth", JPtr(r.Auth))
  @@ Field(r.Cache # Nil, "cache", JPtr(r.Cache))
  @@ Field(r.CORS.type # "nil", "cors", JPtr(r.CORS.ptr))
  @@ Field(DOMAIN r.Input # {}, "input", JValue(r.Input))
  @@ Field(r.Validate # Nil, "validate", JPtr(r.Validate))
  @@ Field(DOMAIN r.TransformIn # {}, "transform_in", JValue(r.TransformIn))
  @@ Field(r.Process # Nil, "process", JPtr(r.Process))
  @@ Field(TRUE, "output", JPtr(r.Output))

Marshal(rt) == [i \in 1..Len(rt.Routes) |-> MarshalRoute(rt.Routes[i])]

(***************************************************************************)
(* lsp package: the pattern the language server applies to a diagnostic    *)
(***************************************************************************)
\* the index of the first ":" of e at or after i, 0 when there is none
RECURSIVE IndexColon(_, _)
IndexColon(e, i) ==
  IF i > Len(e) THEN 0 ELSE IF e[i] = ":" THEN i ELSE IndexColon(e, i + 1)

\* errorPattern.FindStringSubmatch for ^[^:]+:(\d+):(\d+): (.+)$ : the three
\* groups, or Nil when the text does not match.  [^:]+ ends at the first
\* colon, each \d+ at the next one, and .+ reaches the end of the text
\* without crossing a line break.
FindStringSubmatch(e) ==
  With([c1 \in {IndexColon(e, 1)} |->
  With([c2 \in {IF c1 = 0 THEN 0 ELSE IndexColon(e, c1 + 1)} |->
  With([c3 \in {IF c2 = 0 THEN 0 ELSE IndexColon(e, c2 + 1)} |->
     IF /\ c1 > 1
        /\ c2 > c1 + 1
        /\ c3 > c2 + 1
        /\ AllDigits(SubSeq(e, c1 + 1, c2 - 1))
        /\ AllDigits(SubSeq(e, c2 + 1, c3 - 1))
        /\ Len(e) >= c3 + 2
        /\ e[c3 + 1] = " "
        /\ \A i \in (c3 + 2)..Len(e) : e[i] # NL
     THEN <<[line |-> SubSeq(e, c1 + 1, c2 - 1),
             col |-> SubSeq(e, c2 + 1, c3 - 1),
             msg |-> SubSeq(e, c3 + 2, Len(e))]>>
     ELSE Nil])])])

\* the body of the loop of diagnose: the 0-based position, before its
\* conversion to uint32, and the message; a text that does not match keeps
\* the zero range
diagnoseOne(e) ==
  With([m \in {FindStringSubmatch(e)} |->
     IF m = Nil THEN [matched |-> FALSE, Line |-> 0, Character |-> 0, Message |-> e]
     ELSE [matched |-> TRUE,
           Line |-> Atoi(m[1].line).v - 1,
           Character |-> Atoi(m[1].col).v - 1,
           Message |-> m[1].msg]])

diagnose(errs) == [i \in 1..Len(errs) |-> diagnoseOne(errs[i])]

(***************************************************************************)
(* Values of the variables a specification does not use                    *)
(***************************************************************************)
FileName == <<"b", "u", "f", "f", "e", "r">>

NoFile == [Imports |-> <<>>, Types |-> <<>>, Defaults |-> <<>>, Routes |-> <<>>]

(***************************************************************************)
(* lsp package: the DocumentStore.  The server library runs each handler   *)
(* on a goroutine of its own, so calls on the store overlap.  A call takes *)
(* the mutex (Lock for Open, Update and Close, RLock for Get), runs its    *)
(* body, and releases the mutex on return.                                 *)
(***************************************************************************)
NumGoroutines == 2
MaxCalls == 3

Goroutines == 1..NumGoroutines
URIs == {"u1", "u2"}
DocTexts == {<<"a">>, <<"b">>}

\* NewDocumentStore: an unlocked mutex and an empty map
NewDocumentStore == [mu |-> [writer |-> 0, readers |-> {}], docs |-> <<>>]

IdleCall == [pc |-> "idle", op |-> "none", uri |-> "", text |-> <<>>]

StoreInit ==
  /\ store = NewDocumentStore
  /\ calls = [g \in Goroutines |-> IdleCall]
  /\ log = <<>>

\* a variant of the mutex that never makes a caller wait
CanLockAlways(mu) == TRUE

\* sync.RWMutex: Lock waits for the writer and for all readers to leave
CanLock(mu) == mu.writer = 0 /\ mu.readers = {}

\* sync.RWMutex: RLock waits for the writer to leave
CanRLock(mu) == mu.writer = 0

\* s.docs[uri] = text
Open(docs, uri, text) == MapSet(docs, uri, text)
Update(docs, uri, text) == MapSet(docs, uri, text)

\* delete(s.docs, uri)
Close(docs, uri) == [k \in (DOMAIN docs) \ {uri} |-> docs[k]]

\* s.docs[uri]: the zero value "" for a missing key
Get(docs, uri) == IF uri \in DOMAIN docs THEN docs[uri] ELSE <<>>

\* a handler calls a method of the store
CallStep(g) ==
  /\ calls[g].pc = "idle"
  /\ Len(log) + Cardinality({h \in Goroutines : calls[h].pc \in {"lock", "body"}}) < MaxCalls
  /\ \E uri \in URIs :
        \/ \E op \in {"Open", "Update"} : \E text \in DocTexts :
              calls' = [calls EXCEPT ![g] = [pc |-> "lock", op |-> op, uri |-> uri, text |-> text]]
        \/ \E op \in {"Close", "Get"} :
              calls' = [calls EXCEPT ![g] = [pc |-> "lock", op |-> op, uri |-> uri, text |-> <<>>]]
  /\ UNCHANGED <<store, log>>

\* s.mu.Lock() or s.mu.RLock() returns
LockStep(g) ==
  /\ calls[g].pc = "lock"
  /\ IF calls[g].op = "Get"
     THEN /\ CanRLock(store.mu)
          /\ store' = [store EXCEPT !.mu.readers = @ \cup {g}]
     ELSE /\ CanLock(store.mu)
          /\ store' = [store EXCEPT !.mu.writer = g]
  /\ calls' = [calls EXCEPT ![g].pc = "body"]
  /\ UNCHANGED log

\* the body of the method, between taking and releasing the mutex
BodyStep(g) ==
  /\ calls[g].pc = "body"
  /\ \E c \in {calls[g]} :
        CASE c.op = "Open" ->
               /\ store' = [store EXCEPT !.docs = Open(@, c.uri, c.text)]
               /\ calls' = [calls EXCEPT ![g].pc = "unlock"]
          [] c.op = "Update" ->
               /\ store' = [store EXCEPT !.docs = Update(@, c.uri, c.text)]
               /\ calls' = [calls EXCEPT ![g].pc = "unlock"]
          [] c.op = "Close" ->
               /\ store' = [store EXCEPT !.docs = Close(@, c.uri)]
               /\ calls' = [calls EXCEPT ![g].pc = "unlock"]
          [] c.op = "Get" ->
               /\ store' = store
               /\ calls' = [calls EXCEPT ![g].pc = "unlock", ![g].text = Get(store.docs, c.uri)]
  /\ log' = Append(log, [op |-> calls'[g].op, uri |-> calls'[g].uri, text |-> calls'[g].text])

\* the deferred s.mu.Unlock() or s.mu.RUnlock(); the call returns
UnlockStep(g) ==
  /\ calls[g].pc = "unlock"
  /\ store' = IF calls[g].op = "Get"
              THEN [store EXCEPT !.mu.readers = @ \ {g}]
              ELSE [store EXCEPT !.mu.writer = 0]
  /\ calls' = [calls EXCEPT ![g].pc = "idle"]
  /\ UNCHANGED log

ServeInit ==
  /\ StoreInit
  /\ l = New(<<>>, FileName)
  /\ tok = ZeroToken
  /\ cur = ZeroToken
  /\ peek = ZeroToken
  /\ errors = <<>>
  /\ file = NoFile
  /\ pc = "serve"
  /\ root = <<>>
  /\ out = <<>>
  /\ srcFiles = <<>>
  /\ fileIRs = <<>>
  /\ hasErrors = FALSE

\* the variables the language server's goroutines leave alone
StoreFrame ==
  /\ UNCHANGED <<l, tok, cur, peek, errors, file, pc, root, out>>
  /\ UNCHANGED driver

StoreCall == (\E g \in Goroutines : CallStep(g)) /\ StoreFrame

StoreLock == (\E g \in Goroutines : LockStep(g)) /\ StoreFrame

StoreBody == (\E g \in Goroutines : BodyStep(g)) /\ StoreFrame

StoreUnlock == (\E g \in Goroutines : UnlockStep(g)) /\ StoreFrame

StoreNext == StoreCall \/ StoreLock \/ StoreBody \/ StoreUnlock

SpecStore == ServeInit /\ [][StoreNext]_vars

(***************************************************************************)
(* SpecLex: a client pulls tokens from one Lexer, one NextToken call per   *)
(* step, and may toggle the regex mode between calls.                      *)
(***************************************************************************)
LexAlphabet == {QUOTE, BSLASH, NL, "/", "(", ")", "[", "]", "{", "}", "a"}

RECURSIVE Texts(_, _)
Texts(alphabet, n) ==
  IF n = 0 THEN {<<>>}
  ELSE LET shorter == Texts(alphabet, n - 1)
       IN shorter \cup {Append(t, c) : t \in {u \in shorter : Len(u) = n - 1}, c \in alphabet}

LexInit ==
  /\ \E input \in Texts(LexAlphabet, MaxLen) : l = New(input, FileName)
  /\ tok = ZeroToken
  /\ cur = ZeroToken
  /\ peek = ZeroToken
  /\ errors = <<>>
  /\ file = NoFile
  /\ pc = "lex"
  /\ root = <<>>
  /\ out = <<>>
  /\ srcFiles = <<>>
  /\ fileIRs = <<>>
  /\ hasErrors = FALSE
  /\ StoreInit

LexNextToken ==
  /\ pc = "lex"
  /\ \E r \in {NextToken(l)} :
        /\ l' = r.l
        /\ tok' = r.tok
        /\ pc' = IF r.panic THEN "panic" ELSE "lex"
  /\ UNCHANGED <<cur, peek, errors, file, root, out>>
  /\ UNCHANGED driver
  /\ UNCHANGED lsp

LexSetRegexMode ==
  /\ pc = "lex"
  /\ \E on \in BOOLEAN : l' = SetRegexMode(l, on)
  /\ UNCHANGED <<tok, cur, peek, errors, file, pc, root, out>>
  /\ UNCHANGED driver
  /\ UNCHANGED lsp

LexNext == LexNextToken \/ LexSetRegexMode

SpecLex == LexInit /\ [][LexNext]_vars

(***************************************************************************)
(* Source texts.  A text is a head followed by at most MaxFrags fragments  *)
(* of one family; every fragment brings its own line break.                *)
(***************************************************************************)
\* GET /x
RouteHead ==
  <<"G","E","T"," ","/","x">>

\* \n|> input(id: path.id)
StepInput ==
  <<"\n","|",">"," ","i","n","p","u","t","(","i","d",":"," ","p","a","t","h",".","i","d",
    ")">>

\* \n|> input(1)
StepInputInt ==
  <<"\n","|",">"," ","i","n","p","u","t","(","1",")">>

\* \n|> validate(id: int & min(1)) ~> 400 { e: "bad" }
StepValidate ==
  <<"\n","|",">"," ","v","a","l","i","d","a","t","e","(","i","d",":"," ","i","n","t"," ",
    "&"," ","m","i","n","(","1",")",")"," ","~",">"," ","4","0","0"," ","{"," ","e",":"," ",
    "\"","b","a","d","\""," ","}">>

\* \n|> transform(id: int(id))
StepTransform ==
  <<"\n","|",">"," ","t","r","a","n","s","f","o","r","m","(","i","d",":"," ","i","n","t",
    "(","i","d",")",")">>

\* \n|> guard !ok
StepGuard ==
  <<"\n","|",">"," ","g","u","a","r","d"," ","!","o","k">>

\* \n|> fetch(User, id) as u ~> 404
StepFetch ==
  <<"\n","|",">"," ","f","e","t","c","h","(","U","s","e","r",","," ","i","d",")"," ","a",
    "s"," ","u"," ","~",">"," ","4","0","4">>

\* \n|> respond 200 { id: u.id }
StepRespond ==
  <<"\n","|",">"," ","r","e","s","p","o","n","d"," ","2","0","0"," ","{"," ","i","d",":",
    " ","u",".","i","d"," ","}">>

\*  |> respond 200
StepSameLine ==
  <<" ","|",">"," ","r","e","s","p","o","n","d"," ","2","0","0">>

\* \n|> f(a |> b)
StepPipeInArgs ==
  <<"\n","|",">"," ","f","(","a"," ","|",">"," ","b",")">>

\* \n|> respond 200 | x
StepIllegal ==
  <<"\n","|",">"," ","r","e","s","p","o","n","d"," ","2","0","0"," ","|"," ","x">>

\* \n|> "\\
StepOpenString ==
  <<"\n","|",">"," ","\"","\\">>

\* defaults
DefaultsHead ==
  <<"d","e","f","a","u","l","t","s">>

\* \n  cors(none)
DirCorsNone ==
  <<"\n"," "," ","c","o","r","s","(","n","o","n","e",")">>

\* \n  cors(origins: ["*"])
DirCorsOrigins ==
  <<"\n"," "," ","c","o","r","s","(","o","r","i","g","i","n","s",":"," ","[","\"","*","\"",
    "]",")">>

\* \n  cors
DirCorsBare ==
  <<"\n"," "," ","c","o","r","s">>

\* \n  cors(origins "*")
DirCorsNoColon ==
  <<"\n"," "," ","c","o","r","s","(","o","r","i","g","i","n","s"," ","\"","*","\"",")">>

\* \n  cors(origins: ["*"
DirCorsOpenList ==
  <<"\n"," "," ","c","o","r","s","(","o","r","i","g","i","n","s",":"," ","[","\"","*","\"">>

\* \n  auth(none)
DirAuthNone ==
  <<"\n"," "," ","a","u","t","h","(","n","o","n","e",")">>

\* \n  auth(bearer, roles: ["a"]) as u
DirAuthBearer ==
  <<"\n"," "," ","a","u","t","h","(","b","e","a","r","e","r",","," ","r","o","l","e","s",
    ":"," ","[","\"","a","\"","]",")"," ","a","s"," ","u">>

\* \n  auth(roles ["a"])
DirAuthNoColon ==
  <<"\n"," "," ","a","u","t","h","(","r","o","l","e","s"," ","[","\"","a","\"","]",")">>

\* \n  cache(max-age: 300, public)
DirCache ==
  <<"\n"," "," ","c","a","c","h","e","(","m","a","x","-","a","g","e",":"," ","3","0","0",
    ","," ","p","u","b","l","i","c",")">>

\* \nGET /y\n  |> respond 200
GoodRoute ==
  <<"\n","G","E","T"," ","/","y","\n"," "," ","|",">"," ","r","e","s","p","o","n","d"," ",
    "2","0","0">>

\* GET /x\n|> match p {
MatchHead ==
  <<"G","E","T"," ","/","x","\n","|",">"," ","m","a","t","c","h"," ","p"," ","{">>

\* \n  /a/: f(p)
ArmRegex ==
  <<"\n"," "," ","/","a","/",":"," ","f","(","p",")">>

\* \n  /^\\/v1/: f(p)
ArmRegexDoc ==
  <<"\n"," "," ","/","^","\\","/","v","1","/",":"," ","f","(","p",")">>

\* \n  "u", "m": f(p)
ArmString ==
  <<"\n"," "," ","\"","u","\"",","," ","\"","m","\"",":"," ","f","(","p",")">>

\* \n  200..299: ok
ArmRange ==
  <<"\n"," "," ","2","0","0",".",".","2","9","9",":"," ","o","k">>

\* \n  _: ~> 404 { e: "nf" }
ArmDefault ==
  <<"\n"," "," ","_",":"," ","~",">"," ","4","0","4"," ","{"," ","e",":"," ","\"","n","f",
    "\""," ","}">>

\* \n  _: cached
ArmDefaultVar ==
  <<"\n"," "," ","_",":"," ","c","a","c","h","e","d">>

\* \n  _: g(p) ~> 500
ArmDefaultCall ==
  <<"\n"," "," ","_",":"," ","g","(","p",")"," ","~",">"," ","5","0","0">>

\* \n  _:
ArmDefaultEmpty ==
  <<"\n"," "," ","_",":">>

\* \n  "u" f(p)
ArmNoColon ==
  <<"\n"," "," ","\"","u","\""," ","f","(","p",")">>

\* \n}
MatchClose ==
  <<"\n","}">>

\* \n}\n|> respond 200
MatchTail ==
  <<"\n","}","\n","|",">"," ","r","e","s","p","o","n","d"," ","2","0","0">>

StepFrags == {StepInput, StepInputInt, StepValidate, StepTransform, StepGuard, StepFetch,
              StepRespond, StepSameLine, StepPipeInArgs, StepIllegal, StepOpenString}

DirFrags == {DirCorsNone, DirCorsOrigins, DirCorsBare, DirCorsNoColon, DirCorsOpenList,
             DirAuthNone, DirAuthBearer, DirAuthNoColon, DirCache}

ArmFrags == {ArmRegex, ArmRegexDoc, ArmString, ArmRange, ArmDefault, ArmNoColon,
             ArmDefaultVar, ArmDefaultCall, ArmDefaultEmpty}

\* the concatenations of at most n fragments of frags
RECURSIVE Concats(_, _)
Concats(frags, n) ==
  IF n = 0 THEN {<<>>}
  ELSE {<<>>} \cup {f \o t : f \in frags, t \in Concats(frags, n - 1)}

(***************************************************************************)
(* SpecIdent: the client of SpecLex on inputs made of words, hyphens,      *)
(* blanks, underscores and digits.                                         *)
(***************************************************************************)
MaxWords == 4

\* redis-cache
RedisCache ==
  <<"r","e","d","i","s","-","c","a","c","h","e">>

\* x-role
XRole ==
  <<"x","-","r","o","l","e">>

WordFrags == {<<"m","a","x">>, <<"a","g","e">>, <<"r","e","d","i","s">>, sCache,
              <<"x">>, <<"r","o","l","e">>, <<"-">>, <<" ">>, <<"_">>, <<"7">>}

IdentInit ==
  /\ \E input \in Concats(WordFrags, MaxWords) : l = New(input, FileName)
  /\ tok = ZeroToken
  /\ cur = ZeroToken
  /\ peek = ZeroToken
  /\ errors = <<>>
  /\ file = NoFile
  /\ pc = "lex"
  /\ root = <<>>
  /\ out = <<>>
  /\ srcFiles = <<>>
  /\ fileIRs = <<>>
  /\ hasErrors = FALSE
  /\ StoreInit

SpecIdent == IdentInit /\ [][LexNext]_vars

(***************************************************************************)
(* SpecDepth: the client of SpecLex on inputs made of brackets, literal     *)
(* delimiters, comments and line breaks.                                   *)
(***************************************************************************)
DepthAlphabet == {"(", ")", "[", "]", "{", "}", QUOTE, "/", "#", NL}

DepthInit ==
  /\ \E input \in Texts(DepthAlphabet, MaxLen) : l = New(input, FileName)
  /\ tok = ZeroToken
  /\ cur = ZeroToken
  /\ peek = ZeroToken
  /\ errors = <<>>
  /\ file = NoFile
  /\ pc = "lex"
  /\ root = <<>>
  /\ out = <<>>
  /\ srcFiles = <<>>
  /\ fileIRs = <<>>
  /\ hasErrors = FALSE
  /\ StoreInit

SpecDepth == DepthInit /\ [][LexNext]_vars

StepTexts == {RouteHead \o t : t \in Concats(StepFrags, MaxFrags)}

DirTexts == {h \o t \o e : h \in {RouteHead, DefaultsHead},
                            t \in Concats(DirFrags, MaxFrags),
                            e \in {<<>>, GoodRoute}}

MatchTexts == {MatchHead \o t \o e : t \in Concats(ArmFrags, MaxFrags),
                                     e \in {<<>>, MatchClose, MatchTail}}

(***************************************************************************)
(* Route-level cors directives: cors(a1, ..., an) over the argument forms   *)
(* of the directive                                                        *)
(***************************************************************************)
\* GET /x\n  cors(
CorsOpen ==
  <<"G","E","T"," ","/","x","\n"," "," ","c","o","r","s","(">>

\* origins: ["*"]
ArgOrigins ==
  <<"o","r","i","g","i","n","s",":"," ","[","\"","*","\"","]">>

\* methods: ["GET", "PUT"]
ArgMethods ==
  <<"m","e","t","h","o","d","s",":"," ","[","\"","G","E","T","\"",","," ","\"","P","U",
    "T","\"","]">>

\* headers: ["h"]
ArgHeaders ==
  <<"h","e","a","d","e","r","s",":"," ","[","\"","h","\"","]">>

\* expose-headers: ["e"]
ArgExposeHeaders ==
  <<"e","x","p","o","s","e","-","h","e","a","d","e","r","s",":"," ","[","\"","e","\"",
    "]">>

\* max-age: 60
ArgMaxAge ==
  <<"m","a","x","-","a","g","e",":"," ","6","0">>

\* credentials
ArgCredentials ==
  <<"c","r","e","d","e","n","t","i","a","l","s">>

\* each argument form with the CORS field it is written for and that field's value
CorsArgs ==
  <<[text |-> ArgOrigins, field |-> "Origins", value |-> << <<"*">> >>],
   [text |-> ArgMethods, field |-> "Methods", value |-> << <<"G", "E", "T">>, <<"P", "U", "T">> >>],
   [text |-> ArgHeaders, field |-> "Headers", value |-> << <<"h">> >>],
   [text |-> ArgExposeHeaders, field |-> "ExposeHeaders", value |-> << <<"e">> >>],
   [text |-> ArgMaxAge, field |-> "MaxAge", value |-> <<60>>],
   [text |-> ArgCredentials, field |-> "Credentials", value |-> <<TRUE>>]>>

\* the sequences of 1..n elements of S
RECURSIVE SeqsUpTo(_, _)
SeqsUpTo(S, n) ==
  IF n = 0 THEN {}
  ELSE {<<x>> : x \in S} \cup {<<x>> \o t : x \in S, t \in SeqsUpTo(S, n - 1)}

\* the texts of a sequence, separated by ", "
RECURSIVE CommaList(_)
CommaList(texts) ==
  IF Len(texts) = 1 THEN texts[1] ELSE texts[1] \o <<",", " ">> \o CommaList(Tail(texts))

\* the directive whose arguments are the forms numbered seq[1], ..., seq[n]
CorsText(seq) ==
  CorsOpen \o CommaList([i \in 1..Len(seq) |-> CorsArgs[seq[i]].text]) \o <<")">>

CorsSeqs == SeqsUpTo(1..Len(CorsArgs), MaxFrags)

CorsTexts == {CorsText(seq) : seq \in CorsSeqs}

(***************************************************************************)
(* Files of import declarations, one per line                              *)
(***************************************************************************)
\* import f = g.io/f@0.1\n
ImportRemote ==
  <<"i","m","p","o","r","t"," ","f"," ","="," ","g",".","i","o","/","f","@","0",".","1",
    "\n">>

\* import s = g.io/s@latest\n
ImportLatest ==
  <<"i","m","p","o","r","t"," ","s"," ","="," ","g",".","i","o","/","s","@","l","a","t",
    "e","s","t","\n">>

\* import h = @/lib/h\n
ImportLocal ==
  <<"i","m","p","o","r","t"," ","h"," ","="," ","@","/","l","i","b","/","h","\n">>

\* import n = g.io/n\n
ImportNoVersion ==
  <<"i","m","p","o","r","t"," ","n"," ","="," ","g",".","i","o","/","n","\n">>

\* import = g.io/n@1\n
ImportNoAlias ==
  <<"i","m","p","o","r","t"," ","="," ","g",".","i","o","/","n","@","1","\n">>

ImportFrags == {ImportRemote, ImportLatest, ImportLocal, ImportNoVersion, ImportNoAlias}

ImportTexts == Concats(ImportFrags, MaxFrags)

(***************************************************************************)
(* Transform steps: transform(f1, ..., fn) over field forms f: fn(src)     *)
(***************************************************************************)
\* GET /x\n|> transform(
TransformOpen ==
  <<"G","E","T"," ","/","x","\n","|",">"," ","t","r","a","n","s","f","o","r","m","(">>

\* id: int(id)
FieldInt ==
  <<"i","d",":"," ","i","n","t","(","i","d",")">>

\* s: string(a)
FieldString ==
  <<"s",":"," ","s","t","r","i","n","g","(","a",")">>

\* b: bool(c)
FieldBool ==
  <<"b",":"," ","b","o","o","l","(","c",")">>

\* f: float(x)
FieldFloat ==
  <<"f",":"," ","f","l","o","a","t","(","x",")">>

\* d: datetime(t)
FieldDatetime ==
  <<"d",":"," ","d","a","t","e","t","i","m","e","(","t",")">>

\* n: trim(name)
FieldTrim ==
  <<"n",":"," ","t","r","i","m","(","n","a","m","e",")">>

\* i: integer(v)
FieldInteger ==
  <<"i",":"," ","i","n","t","e","g","e","r","(","v",")">>

\* u: Int(v)
FieldUpperInt ==
  <<"u",":"," ","I","n","t","(","v",")">>

\* each field form with its name, its function and its source
TransformFields ==
  <<[text |-> FieldInt, name |-> <<"i", "d">>, fn |-> <<"i", "n", "t">>, src |-> <<"i", "d">>],
    [text |-> FieldString, name |-> <<"s">>, fn |-> <<"s", "t", "r", "i", "n", "g">>, src |-> <<"a">>],
    [text |-> FieldBool, name |-> <<"b">>, fn |-> <<"b", "o", "o", "l">>, src |-> <<"c">>],
    [text |-> FieldFloat, name |-> <<"f">>, fn |-> <<"f", "l", "o", "a", "t">>, src |-> <<"x">>],
    [text |-> FieldDatetime, name |-> <<"d">>, fn |-> <<"d", "a", "t", "e", "t", "i", "m", "e">>, src |-> <<"t">>],
    [text |-> FieldTrim, name |-> <<"n">>, fn |-> <<"t", "r", "i", "m">>, src |-> <<"n", "a", "m", "e">>],
    [text |-> FieldInteger, name |-> <<"i">>, fn |-> <<"i", "n", "t", "e", "g", "e", "r">>, src |-> <<"v">>],
    [text |-> FieldUpperInt, name |-> <<"u">>, fn |-> <<"I", "n", "t">>, src |-> <<"v">>]>>

\* open, the forms of args numbered seq[1], ..., seq[n] separated by ", ", and ")"
ArgsText(open, args, seq) ==
  open \o CommaList([i \in 1..Len(seq) |-> args[seq[i]].text]) \o <<")">>

TransformSeqs == SeqsUpTo(1..Len(TransformFields), MaxFrags)

TransformTexts == {ArgsText(TransformOpen, TransformFields, seq) : seq \in TransformSeqs}

(***************************************************************************)
(* Package calls: f(a1, ..., an) over the argument forms of a call         *)
(***************************************************************************)
\* GET /x\n|> f(
PkgOpen ==
  <<"G","E","T"," ","/","x","\n","|",">"," ","f","(">>

\* key: "k"
PkgNamed ==
  <<"k","e","y",":"," ","\"","k","\"">>

\* User
PkgTypeRef ==
  <<"U","s","e","r">>

\* { name, email }
PkgObject ==
  <<"{"," ","n","a","m","e",","," ","e","m","a","i","l"," ","}">>

\* uid
PkgBare ==
  <<"u","i","d">>

\* 7
PkgBareInt ==
  <<"7">>

\* "type"
PkgBareString ==
  <<"\"","t","y","p","e","\"">>

\* each argument form: a named argument, a type reference, an object shorthand
\* or a bare positional value
PkgArgs ==
  <<[text |-> PkgNamed, form |-> "named", name |-> <<"k", "e", "y">>, value |-> <<"k">>,
     fields |-> <<>>],
    [text |-> PkgTypeRef, form |-> "type", name |-> <<>>, value |-> <<"U", "s", "e", "r">>,
     fields |-> <<>>],
    [text |-> PkgObject, form |-> "object", name |-> <<>>, value |-> <<>>,
     fields |-> <<<<"n", "a", "m", "e">>, <<"e", "m", "a", "i", "l">>>>],
    [text |-> PkgBare, form |-> "bare", name |-> <<>>, value |-> <<"u", "i", "d">>,
     fields |-> <<>>],
    [text |-> PkgBareInt, form |-> "bare", name |-> <<>>, value |-> <<"7">>,
     fields |-> <<>>],
    [text |-> PkgBareString, form |-> "bare", name |-> <<>>, value |-> <<"t", "y", "p", "e">>,
     fields |-> <<>>]>>

PkgSeqs == SeqsUpTo(1..Len(PkgArgs), MaxFrags)

PkgTexts == {ArgsText(PkgOpen, PkgArgs, seq) : seq \in PkgSeqs}

(***************************************************************************)
(* Validate steps: validate(id: c1 & ... & cn), with or without an error   *)
(* flow, over constraint forms                                             *)
(***************************************************************************)
\* GET /x\n|> validate(id: 
ValidateOpen ==
  <<"G","E","T"," ","/","x","\n","|",">"," ","v","a","l","i","d","a","t","e","(","i",
    "d",":"," ">>

\*  ~> 422 { e: "bad" }
ValidateError ==
  <<" ","~",">"," ","4","2","2"," ","{"," ","e",":"," ","\"","b","a","d","\""," ","}">>

\* int
ConInt ==
  <<"i","n","t">>

\* datetime
ConDatetime ==
  <<"d","a","t","e","t","i","m","e">>

\* min(1)
ConMin ==
  <<"m","i","n","(","1",")">>

\* max(9)
ConMax ==
  <<"m","a","x","(","9",")">>

\* min(x)
ConMinIdent ==
  <<"m","i","n","(","x",")">>

\* format(email)
ConFormat ==
  <<"f","o","r","m","a","t","(","e","m","a","i","l",")">>

\* format(5)
ConFormatInt ==
  <<"f","o","r","m","a","t","(","5",")">>

\* required
ConRequired ==
  <<"r","e","q","u","i","r","e","d">>

\* each constraint form with its name and its first argument: none, an
\* integer (with its digits) or a string or identifier
Constraints ==
  <<[text |-> ConInt, name |-> <<"i", "n", "t">>,
     arg |-> "none", int |-> 0, str |-> <<>>],
    [text |-> ConDatetime, name |-> <<"d", "a", "t", "e", "t", "i", "m", "e">>,
     arg |-> "none", int |-> 0, str |-> <<>>],
    [text |-> ConMin, name |-> <<"m", "i", "n">>,
     arg |-> "int", int |-> 1, str |-> <<"1">>],
    [text |-> ConMax, name |-> <<"m", "a", "x">>,
     arg |-> "int", int |-> 9, str |-> <<"9">>],
    [text |-> ConMinIdent, name |-> <<"m", "i", "n">>,
     arg |-> "str", int |-> 0, str |-> <<"x">>],
    [text |-> ConFormat, name |-> <<"f", "o", "r", "m", "a", "t">>,
     arg |-> "str", int |-> 0, str |-> <<"e", "m", "a", "i", "l">>],
    [text |-> ConFormatInt, name |-> <<"f", "o", "r", "m", "a", "t">>,
     arg |-> "int", int |-> 5, str |-> <<"5">>],
    [text |-> ConRequired, name |-> <<"r", "e", "q", "u", "i", "r", "e", "d">>,
     arg |-> "none", int |-> 0, str |-> <<>>]>>

\* the texts of a sequence, separated by " & "
RECURSIVE AmpList(_)
AmpList(texts) ==
  IF Len(texts) = 1 THEN texts[1] ELSE texts[1] \o <<" ", "&", " ">> \o AmpList(Tail(texts))

\* the validate step with the constraints numbered seq[1], ..., seq[n]
ValidateText(seq, withError) ==
  ValidateOpen \o AmpList([i \in 1..Len(seq) |-> Constraints[seq[i]].text]) \o <<")">>
    \o (IF withError THEN ValidateError ELSE <<>>)

ValidateSeqs == SeqsUpTo(1..Len(Constraints), MaxFrags)

ValidateTexts == {ValidateText(seq, e) : seq \in ValidateSeqs, e \in BOOLEAN}

(***************************************************************************)
(* Sources with a character the tokenizer does not know, one per place     *)
(***************************************************************************)
\* ~\nGET /x
IllegalTop ==
  <<"~","\n","G","E","T"," ","/","x">>

\* GET /x|y
IllegalPath ==
  <<"G","E","T"," ","/","x","|","y">>

\* GET /x\n  cors(~)
IllegalDirArg ==
  <<"G","E","T"," ","/","x","\n"," "," ","c","o","r","s","(","~",")">>

\* GET /x\n|> validate(id: min(~))
IllegalConstraint ==
  <<"G","E","T"," ","/","x","\n","|",">"," ","v","a","l","i","d","a","t","e","(","i",
    "d",":"," ","m","i","n","(","~",")",")">>

IllegalTexts == {IllegalTop, IllegalPath, IllegalDirArg, IllegalConstraint,
                 RouteHead \o StepIllegal}

\* \n  "u", /a/: f(p)
ArmMultiRegex ==
  <<"\n"," "," ","\"","u","\"",","," ","/","a","/",":"," ","f","(","p",")">>

\* a pattern that goes wrong after a token was read in regex mode
RegexTexts == {MatchHead \o ArmMultiRegex \o e : e \in {<<>>, MatchClose}}

SourceTexts == StepTexts \cup DirTexts \cup MatchTexts \cup CorsTexts
               \cup ImportTexts \cup TransformTexts \cup PkgTexts
               \cup ValidateTexts \cup IllegalTexts \cup RegexTexts

(***************************************************************************)
(* SpecParse: the driver of cmd/reverc and of the language server's        *)
(* diagnose: parser.New on a fresh lexer, ParseFile one top-level          *)
(* statement per step, then gen.Generate and json.Marshal.                 *)
(***************************************************************************)
Parser == [l |-> l, cur |-> cur, peek |-> peek, errors |-> errors, st |-> "ok"]

\* the parser fields after a call; pc tells how the call ended
Continue(q, next) ==
  /\ l' = q.l
  /\ cur' = q.cur
  /\ peek' = q.peek
  /\ errors' = q.errors
  /\ pc' = IF q.st = "ok" THEN next ELSE q.st

NewParser ==
  /\ pc = "new"
  /\ Continue(ParserNew(l), "begin")
  /\ UNCHANGED <<tok, file, root, out>>
  /\ UNCHANGED driver
  /\ UNCHANGED lsp

ParseFileBegin ==
  /\ pc = "begin"
  /\ Continue(skipNewlines(Parser), "loop")
  /\ file' = NoFile
  /\ UNCHANGED <<tok, root, out>>
  /\ UNCHANGED driver
  /\ UNCHANGED lsp

ParseFileStep ==
  /\ pc = "loop"
  /\ ~curIs(Parser, "EOF")
  /\ \E r \in {ParseFileIter(Parser, file)} :
        /\ Continue(r.p, "loop")
        /\ file' = IF r.p.st = "ok" THEN r.v ELSE file
  /\ UNCHANGED <<tok, root, out>>
  /\ UNCHANGED driver
  /\ UNCHANGED lsp

ParseFileReturn ==
  /\ pc = "loop"
  /\ curIs(Parser, "EOF")
  /\ pc' = "parsed"
  /\ UNCHANGED <<l, tok, cur, peek, errors, file, root, out>>
  /\ UNCHANGED driver
  /\ UNCHANGED lsp

\* a file with diagnostics is reported and not compiled
ReportErrors ==
  /\ pc = "parsed"
  /\ Len(errors) > 0
  /\ pc' = "exit"
  /\ UNCHANGED <<l, tok, cur, peek, errors, file, root, out>>
  /\ UNCHANGED driver
  /\ UNCHANGED lsp

GenerateStep ==
  /\ pc = "parsed"
  /\ Len(errors) = 0
  /\ IF GeneratePanics(file)
     THEN root' = root /\ pc' = "genpanic"
     ELSE root' = <<Generate(file)>> /\ pc' = "generated"
  /\ UNCHANGED <<l, tok, cur, peek, errors, file, out>>
  /\ UNCHANGED driver
  /\ UNCHANGED lsp

MarshalStep ==
  /\ pc = "generated"
  /\ out' = Marshal(root[1])
  /\ pc' = "done"
  /\ UNCHANGED <<l, tok, cur, peek, errors, file, root>>
  /\ UNCHANGED driver
  /\ UNCHANGED lsp

ParseNext ==
  \/ NewParser
  \/ ParseFileBegin
  \/ ParseFileStep
  \/ ParseFileReturn
  \/ ReportErrors
  \/ GenerateStep
  \/ MarshalStep

ParseInit(inputs) ==
  /\ \E input \in inputs : l = New(input, FileName)
  /\ tok = ZeroToken
  /\ cur = ZeroToken
  /\ peek = ZeroToken
  /\ errors = <<>>
  /\ file = NoFile
  /\ pc = "new"
  /\ root = <<>>
  /\ out = <<>>
  /\ srcFiles = <<>>
  /\ fileIRs = <<>>
  /\ hasErrors = FALSE
  /\ StoreInit

ParseInitAll == ParseInit(SourceTexts)

SpecParse == ParseInitAll /\ [][ParseNext]_vars

(***************************************************************************)
(* SpecGen: a client of the gen package that parses a source and hands the *)
(* AST to Generate whatever diagnostics the parser recorded.               *)
(***************************************************************************)
ParseAndGenerate ==
  /\ pc = "parsed"
  /\ IF GeneratePanics(file)
     THEN root' = root /\ pc' = "genpanic"
     ELSE root' = <<Generate(file)>> /\ pc' = "generated"
  /\ UNCHANGED <<l, tok, cur, peek, errors, file, out>>
  /\ UNCHANGED driver
  /\ UNCHANGED lsp

GenNext ==
  \/ NewParser
  \/ ParseFileBegin
  \/ ParseFileStep
  \/ ParseFileReturn
  \/ ParseAndGenerate

SpecGen == ParseInitAll /\ [][GenNext]_vars

(***************************************************************************)
(* SpecAlias: a client that parses and lowers a source and then writes an  *)
(* element of a list held by the IR.  genCache, genCORS and genAuth assign *)
(* arg.Value.ListVal to the IR field: a Go slice assignment copies the     *)
(* slice header, so the IR list and the AST list share one backing array   *)
(* and a write through either is seen through both.                        *)
(***************************************************************************)
\* \n  cache(vary: ["a"])
DirCacheVary ==
  <<"\n"," "," ","c","a","c","h","e","(","v","a","r","y",":"," ","[","\"","a","\"","]",
    ")">>

AliasTexts == DirTexts \cup CorsTexts
              \cup {h \o DirCacheVary : h \in {RouteHead, DefaultsHead}}
              \cup {ImportNoAlias}

\* directive name, IR field and argument name of every slice assignment
ListFields == {<<sCache, "Vary", sVary>>,
               <<sCors, "Origins", sOrigins>>, <<sCors, "Methods", sMethods>>,
               <<sCors, "Headers", sHeaders>>, <<sCors, "ExposeHeaders", sExposeHeaders>>,
               <<sAuth, "Roles", sRoles>>, <<sAuth, "Permissions", sPermissions>>}

\* the largest member of a set of positive numbers, 0 for the empty set
LastOf(S) == IF S = {} THEN 0 ELSE CHOOSE i \in S : \A j \in S : j <= i

\* the directive whose lowering is kept: each directive of a name replaces
\* the result of the earlier ones; a route skips auth(none)
SourceDirective(dirs, name, isRoute) ==
  LastOf({d \in 1..Len(dirs) :
            /\ dirs[d].Name = name
            /\ (isRoute /\ name = sAuth) => ~isNoneDirective(dirs[d])})

\* the argument whose ListVal the field keeps: the last one of that name
SourceArg(dir, argName) == LastOf({a \in 1..Len(dir.Args) : dir.Args[a].Name = argName})

\* the *ir.Cache, *ir.CORS or *ir.Auth of a route
RouteObject(r, name) ==
  CASE name = sCache -> r.Cache
    [] name = sCors -> r.CORS.ptr
    [] name = sAuth -> r.Auth

\* the *ir.Cache, *ir.CORS or *ir.Auth of the defaults
DefaultsObject(d, name) ==
  CASE name = sCache -> d.Cache
    [] name = sCors -> d.CORS
    [] name = sAuth -> d.Auth

\* root.Routes[i].<object>.<field>[k] = v
SetRouteList(rt, i, name, field, k, v) ==
  CASE name = sCache -> [rt EXCEPT !.Routes[i].Cache[1][field][k] = v]
    [] name = sCors -> [rt EXCEPT !.Routes[i].CORS.ptr[1][field][k] = v]
    [] name = sAuth -> [rt EXCEPT !.Routes[i].Auth[1][field][k] = v]

\* root.Defaults.<object>.<field>[k] = v
SetDefaultsList(rt, name, field, k, v) ==
  CASE name = sCache -> [rt EXCEPT !.Defaults[1].Cache[1][field][k] = v]
    [] name = sCors -> [rt EXCEPT !.Defaults[1].CORS[1][field][k] = v]
    [] name = sAuth -> [rt EXCEPT !.Defaults[1].Auth[1][field][k] = v]

WriteRouteList ==
  /\ pc = "generated"
  /\ \E i \in 1..Len(root[1].Routes) : \E lf \in ListFields :
        \E obj \in {RouteObject(root[1].Routes[i], lf[1])} :
           /\ obj # Nil
           /\ \E k \in 1..Len(obj[1][lf[2]]) :
                 \E d \in {SourceDirective(file.Routes[i].Directives, lf[1], TRUE)} :
                    \E a \in {SourceArg(file.Routes[i].Directives[d], lf[3])} :
                       /\ root' = <<SetRouteList(root[1], i, lf[1], lf[2], k, <<"z">>)>>
                       /\ file' = [file EXCEPT
                                     !.Routes[i].Directives[d].Args[a].Value.ListVal[k] = <<"z">>]
  /\ pc' = "written"
  /\ UNCHANGED <<l, tok, cur, peek, errors, out>>
  /\ UNCHANGED driver
  /\ UNCHANGED lsp

WriteDefaultsList ==
  /\ pc = "generated"
  /\ root[1].Defaults # Nil
  /\ \E lf \in ListFields :
        \E obj \in {DefaultsObject(root[1].Defaults[1], lf[1])} :
           /\ obj # Nil
           /\ \E k \in 1..Len(obj[1][lf[2]]) :
                 \E d \in {SourceDirective(file.Defaults[1].Directives, lf[1], FALSE)} :
                    \E a \in {SourceArg(file.Defaults[1].Directives[d], lf[3])} :
                       /\ root' = <<SetDefaultsList(root[1], lf[1], lf[2], k, <<"z">>)>>
                       /\ file' = [file EXCEPT
                                     !.Defaults[1].Directives[d].Args[a].Value.ListVal[k] = <<"z">>]
  /\ pc' = "written"
  /\ UNCHANGED <<l, tok, cur, peek, errors, out>>
  /\ UNCHANGED driver
  /\ UNCHANGED lsp

AliasNext ==
  \/ NewParser
  \/ ParseFileBegin
  \/ ParseFileStep
  \/ ParseFileReturn
  \/ ReportErrors
  \/ GenerateStep
  \/ WriteRouteList
  \/ WriteDefaultsList

SpecAlias == ParseInit(AliasTexts) /\ [][AliasNext]_vars

(***************************************************************************)
(* SpecMerge: main of cmd/reverc on several source files.  Each file is    *)
(* parsed; a file with diagnostics sets hasErrors and is skipped, any      *)
(* other file is lowered and merged into root.                             *)
(***************************************************************************)
MaxFiles == 3

\* import f = @/lib/f\n
ImportFLocal ==
  <<"i","m","p","o","r","t"," ","f"," ","="," ","@","/","l","i","b","/","f","\n">>

\* type U { id: int }\n
TypeUser ==
  <<"t","y","p","e"," ","U"," ","{"," ","i","d",":"," ","i","n","t"," ","}","\n">>

\* type U { n: string }\n
TypeUserName ==
  <<"t","y","p","e"," ","U"," ","{"," ","n",":"," ","s","t","r","i","n","g"," ","}","\n">>

\* type {\n
TypeNoName ==
  <<"t","y","p","e"," ","{","\n">>

\* imports, a type, defaults and a route in one file
FileA == ImportRemote \o TypeUser \o DefaultsHead \o DirCorsOrigins \o GoodRoute

\* the same alias, the same type name, other defaults and another route
FileB == ImportFLocal \o TypeUserName \o DefaultsHead \o DirAuthBearer \o <<"\n">> \o RouteHead

MergeTexts == {FileA, FileB, ImportLocal, TypeUser, DefaultsHead \o DirCorsOrigins,
               RouteHead, GoodRoute, TypeNoName}

\* dst[k] = v for every k, v of src
mergeMap(dst, src) ==
  [k \in (DOMAIN dst) \cup (DOMAIN src) |-> IF k \in DOMAIN src THEN src[k] ELSE dst[k]]

\* a variant that keeps the defaults of the first file that defines any
mergeIRKeepDefaults(dst, src) ==
  [Version |-> dst.Version,
   Imports |-> IF DOMAIN src.Imports # {} THEN mergeMap(dst.Imports, src.Imports) ELSE dst.Imports,
   Types |-> IF DOMAIN src.Types # {} THEN mergeMap(dst.Types, src.Types) ELSE dst.Types,
   Defaults |-> IF dst.Defaults = Nil THEN src.Defaults ELSE dst.Defaults,
   Routes |-> dst.Routes \o src.Routes]

mergeIR(dst, src) ==
  [Version |-> dst.Version,
   Imports |-> IF DOMAIN src.Imports # {} THEN mergeMap(dst.Imports, src.Imports) ELSE dst.Imports,
   Types |-> IF DOMAIN src.Types # {} THEN mergeMap(dst.Types, src.Types) ELSE dst.Types,
   Defaults |-> IF src.Defaults # Nil THEN src.Defaults ELSE dst.Defaults,
   Routes |-> dst.Routes \o src.Routes]

\* &ir.Root{Version: "0.1"}
EmptyRoot == [Version |-> "0.1", Imports |-> <<>>, Types |-> <<>>, Defaults |-> Nil, Routes |-> <<>>]

MergeInit ==
  /\ srcFiles \in SeqsUpTo(MergeTexts, MaxFiles)
  /\ root = <<EmptyRoot>>
  /\ hasErrors = FALSE
  /\ StoreInit
  /\ fileIRs = <<>>
  /\ l = New(<<>>, FileName)
  /\ tok = ZeroToken
  /\ cur = ZeroToken
  /\ peek = ZeroToken
  /\ errors = <<>>
  /\ file = NoFile
  /\ pc = "next"
  /\ out = <<>>

\* the next file is read and handed to a new lexer
NextFile ==
  /\ pc = "next"
  /\ srcFiles # <<>>
  /\ l' = New(Head(srcFiles), FileName)
  /\ srcFiles' = Tail(srcFiles)
  /\ cur' = ZeroToken
  /\ peek' = ZeroToken
  /\ errors' = <<>>
  /\ file' = NoFile
  /\ pc' = "new"
  /\ UNCHANGED <<tok, root, out, fileIRs, hasErrors>>
  /\ UNCHANGED lsp

SkipFile ==
  /\ pc = "parsed"
  /\ Len(errors) > 0
  /\ hasErrors' = TRUE
  /\ pc' = "next"
  /\ UNCHANGED <<l, tok, cur, peek, errors, file, root, out, srcFiles, fileIRs>>
  /\ UNCHANGED lsp

MergeFile ==
  /\ pc = "parsed"
  /\ Len(errors) = 0
  /\ IF GeneratePanics(file)
     THEN pc' = "genpanic" /\ UNCHANGED <<root, fileIRs>>
     ELSE \E fileIR \in {Generate(file)} :
             /\ root' = <<mergeIR(root[1], fileIR)>>
             /\ fileIRs' = Append(fileIRs, fileIR)
             /\ pc' = "next"
  /\ UNCHANGED <<l, tok, cur, peek, errors, file, out, srcFiles, hasErrors>>
  /\ UNCHANGED lsp

MergeExit ==
  /\ pc = "next"
  /\ srcFiles = <<>>
  /\ hasErrors
  /\ pc' = "exit"
  /\ UNCHANGED <<l, tok, cur, peek, errors, file, root, out, srcFiles, fileIRs, hasErrors>>
  /\ UNCHANGED lsp

MergeMarshal ==
  /\ pc = "next"
  /\ srcFiles = <<>>
  /\ ~hasErrors
  /\ out' = Marshal(root[1])
  /\ pc' = "done"
  /\ UNCHANGED <<l, tok, cur, peek, errors, file, root, srcFiles, fileIRs, hasErrors>>
  /\ UNCHANGED lsp

MergeNext ==
  \/ NextFile
  \/ NewParser
  \/ ParseFileBegin
  \/ ParseFileStep
  \/ ParseFileReturn
  \/ SkipFile
  \/ MergeFile
  \/ MergeExit
  \/ MergeMarshal

SpecMerge == MergeInit /\ [][MergeNext]_vars

(***************************************************************************)
(* Properties of the lexer, checked under SpecLex                          *)
(***************************************************************************)
Depth(lx) == lx.parenDepth + lx.braceDepth + lx.bracketDepth

\* the number of line breaks in a text
RECURSIVE CountNL(_)
CountNL(s) == IF s = <<>> THEN 0 ELSE (IF Head(s) = NL THEN 1 ELSE 0) + CountNL(Tail(s))

\* the characters a NextToken call consumed: Go offsets l.pos .. l'.pos - 1
Consumed == SubSeq(l.input, l.pos + 1, l'.pos)

\* p1 is not after p2 in the source
NotAfter(p1, p2) == p1.Line < p2.Line \/ (p1.Line = p2.Line /\ p1.Column <= p2.Column)

\* C2: for every input every NextToken call returns a token without failing
\* (also for an unclosed string or regex literal whose last character is a
\* backslash), and the read cursor never goes past the end of the input.
C2_NextTokenNeverFails == pc # "panic" /\ l.pos <= Len(l.input)

\* C7: a NextToken call returns a NEWLINE token for a line break it reads if
\* and only if all three depth counters are zero when the line break is read.
C7_NewlineIffDepthZero ==
  [][(LexNextToken /\ pc' = "lex" /\ CountNL(Consumed) > 0)
       => (tok'.Type = "NEWLINE" <=> Depth(l) = 0)]_vars

\* C7 (amended): the same for every line break that is not part of the string
\* or regex literal the call returns (a line break escaped by a backslash
\* belongs to the literal): NEWLINE is returned for it iff the counters are
\* zero; and a NEWLINE token is only ever returned at depth zero.
C7_NewlineOutsideLiterals ==
  [][(LexNextToken /\ pc' = "lex")
       => /\ tok'.Type = "NEWLINE" => (Depth(l) = 0 /\ CountNL(Consumed) = 1)
          /\ CountNL(Consumed) >
               (IF tok'.Type \in {"STRING", "REGEX"} THEN CountNL(tok'.Literal) ELSE 0)
             => (tok'.Type = "NEWLINE" <=> Depth(l) = 0)]_vars

\* a line break inside parentheses was suppressed, and the one after the
\* closing parenthesis has been returned as NEWLINE
C7_Witness ==
  /\ pc = "lex"
  /\ l.input = <<"(", NL, ")", NL>>
  /\ tok.Type = "NEWLINE"
  /\ tok.Pos.Line = 2
  /\ Depth(l) = 0

\* C8: every call returns a token; tokens come in source order; a call that
\* returns a non-EOF token consumes at least one character; once EOF has been
\* returned every later call returns the same EOF token and leaves the lexer
\* unchanged.
C8_TokenStream ==
  [][LexNextToken
       => /\ pc' = "lex"
          /\ tok'.Type # "EOF" => l'.pos > l.pos
          /\ tok # ZeroToken => NotAfter(tok.Pos, tok'.Pos)
          /\ tok.Type = "EOF" => (tok' = tok /\ l' = l)]_vars

(***************************************************************************)
(* Properties of the parser and the generator, checked under SpecParse     *)
(***************************************************************************)
\* the tokens of a text up to EOF (or up to a failing call), regex mode off
RECURSIVE LexAll(_, _)
LexAll(lx, acc) ==
  With([r \in {NextToken(lx)} |->
     IF r.panic THEN acc
     ELSE IF r.tok.Type = "EOF" THEN Append(acc, r.tok)
     ELSE LexAll(r.l, Append(acc, r.tok))])

Tokens(input) == LexAll(New(input, FileName), <<>>)

CountType(toks, t) == Cardinality({i \in 1..Len(toks) : toks[i].Type = t})

CountPipes(input) == CountType(Tokens(input), "PIPE")

CountMethods(input) ==
  With([toks \in {Tokens(input)} |->
     Cardinality({i \in 1..Len(toks) : IsHTTPMethod(toks[i].Type)})])

ParseEnded == pc \in {"parsed", "exit", "generated", "done", "panic", "hung"}

ParseReturned == pc \in {"parsed", "exit", "generated", "done"}

\* the route GET /y with its single respond step
IsGoodRoute(route) ==
  /\ route.Method = <<"G", "E", "T">>
  /\ route.Path = <<"/", "y">>
  /\ Len(route.Steps) = 1
  /\ route.Steps[1].Kind = "StepRespond"

HasNoneArg(dir) == \E k \in 1..Len(dir.Args) : dir.Args[k].Name = sNone

\* C1: for every source text ParseFile returns; it neither fails nor loops
\* forever.
C1_ParseFileTerminates == pc \notin {"panic", "hung"}

\* C3: for a text made of one malformed directive (missing ':' or unclosed
\* bracket, in a defaults block or at route level) followed on later lines by
\* a well-formed route, ParseFile returns an AST that contains the
\* well-formed route, with at least one diagnostic on the malformed line.
C3Texts == {h \o m \o GoodRoute : h \in {RouteHead, DefaultsHead},
                                  m \in {DirCorsNoColon, DirCorsOpenList, DirAuthNoColon}}

C3_MalformedDirectiveRecovery ==
  (l.input \in C3Texts /\ ParseEnded) =>
     /\ ParseReturned
     /\ \E i \in 1..Len(file.Routes) : IsGoodRoute(file.Routes[i])
     /\ \E i \in 1..Len(errors) : diagnoseOne(errors[i]).Line + 1 = 2

\* C4: a match arm written /src/: action yields an arm whose pattern has kind
\* Regex and whose source is the text between the slashes, with no
\* diagnostic.
C4Texts == {MatchHead \o a \o ArmRegex \o b \o e :
              a \in {<<>>, ArmString}, b \in {<<>>, ArmDefault}, e \in {MatchClose, MatchTail}}

C4_RegexArm ==
  (l.input \in C4Texts /\ ParseEnded) =>
     /\ ParseReturned
     /\ errors = <<>>
     /\ Len(file.Routes) = 1
     /\ Len(file.Routes[1].Steps) >= 1
     /\ file.Routes[1].Steps[1].Kind = "StepMatch"
     /\ \E k \in 1..Len(file.Routes[1].Steps[1].Match[1].Arms) :
          /\ file.Routes[1].Steps[1].Match[1].Arms[k].Pattern.Kind = "PatternRegex"
          /\ file.Routes[1].Steps[1].Match[1].Arms[k].Pattern.Regex = <<"a">>

\* C5: for a single-route source parsed with zero diagnostics, the AST has
\* exactly one route and its number of steps is the number of |> tokens of
\* the source.
C5_StepsEqualPipes ==
  (ParseReturned /\ errors = <<>> /\ CountMethods(l.input) = 1) =>
     /\ Len(file.Routes) = 1
     /\ Len(file.Routes[1].Steps) = CountPipes(l.input)

\* C6: every diagnostic has the shape <file>:<line>:<column>: <message> with
\* line >= 1 and column >= 1 the position of a token of the source; so it
\* matches the language server's pattern (the file identifier has no ':'),
\* the message extracted is not empty, and the 0-based line and column are
\* never negative.
C6_DiagnosticShape ==
  \A i \in 1..Len(errors) :
     \E d \in {diagnoseOne(errors[i])} :
        /\ d.matched
        /\ d.Line >= 0
        /\ d.Character >= 0
        /\ d.Message # <<>>
        /\ SubSeq(errors[i], 1, Len(FileName) + 1) = FileName \o <<":">>
        /\ \E toks \in {Tokens(l.input)} :
              \E k \in 1..Len(toks) :
                 /\ toks[k].Pos.Line = d.Line + 1
                 /\ toks[k].Pos.Column = d.Character + 1

\* a source has produced two diagnostics, one of them past column 9
C6_Witness ==
  /\ ParseReturned
  /\ Len(errors) >= 2
  /\ \E i \in 1..Len(errors) : diagnoseOne(errors[i]).Character >= 9

\* C9: the cors entry of an IR route is absent when the route has no cors
\* directive, an explicit null when its cors directive is cors(none), and an
\* object otherwise, carrying the origins written in the directive (when the
\* directive is repeated, the last one decides).
C9_CorsTriState ==
  pc = "done" =>
    \A i \in 1..Len(file.Routes) :
       \E cs \in {SelectSeq(file.Routes[i].Directives, LAMBDA d : d.Name = sCors)} :
          IF cs = <<>> THEN "cors" \notin DOMAIN out[i]
          ELSE /\ "cors" \in DOMAIN out[i]
               /\ IF HasNoneArg(cs[Len(cs)]) THEN out[i].cors = JNull
                  ELSE /\ out[i].cors.json = "value"
                       /\ \A k \in 1..Len(cs[Len(cs)].Args) :
                             cs[Len(cs)].Args[k].Name = sOrigins
                                => out[i].cors.v.Origins = cs[Len(cs)].Args[k].Value.ListVal

\* one output holds the three states: null for cors(none), absent for a
\* route without cors directive; and an object with origins exists as well
C9_Witness ==
  /\ pc = "done"
  /\ Len(out) = 2
  /\ "cors" \in DOMAIN out[1]
  /\ out[1].cors = JNull
  /\ "cors" \notin DOMAIN out[2]

\* C10: the IR route of every route that carries an auth(none) directive has
\* no auth entry, whatever other directives the route carries and in
\* whatever order.
C10_AuthNoneOmitsAuth ==
  pc = "done" =>
    \A i \in 1..Len(file.Routes) :
       (\E k \in 1..Len(file.Routes[i].Directives) :
           /\ file.Routes[i].Directives[k].Name = sAuth
           /\ HasNoneArg(file.Routes[i].Directives[k]))
         => "auth" \notin DOMAIN out[i]

\* the states in which the run of the compiler on the input has ended
Ended == pc \in {"done", "exit", "panic", "hung"}

\* C11: for a route-level directive cors(a1, ..., an) whose arguments are
\* K: [s1, ..., sn] with K one of origins, methods, headers, expose-headers,
\* or max-age: n, or the flag credentials, parse followed by generate gives a
\* CORS object in which the field of every argument holds the argument's
\* value: the list, the integer, or true.
C11_CorsArguments ==
  \A seq \in CorsSeqs :
     (Ended /\ l.input = CorsText(seq))
       => /\ pc = "done"
          /\ Len(out) = 1
          /\ "cors" \in DOMAIN out[1]
          /\ out[1].cors # JNull
          /\ \A i \in 1..Len(seq) :
                out[1].cors.v[CorsArgs[seq[i]].field] = CorsArgs[seq[i]].value

\* s starts with the characters of prefix
HasPrefix(s, prefix) == Len(s) >= Len(prefix) /\ SubSeq(s, 1, Len(prefix)) = prefix

\* C12: every import declaration in the AST is exactly one of a remote import
\* with a non-empty version, or a local import (Local set, source starting
\* with @/, no version).
C12_ImportVersionOrLocal ==
  \A i \in 1..Len(file.Imports) :
     \E d \in {file.Imports[i]} :
        (~d.Local /\ d.Version # <<>>)
          # (d.Local /\ HasPrefix(d.Source, <<"@", "/">>) /\ d.Version = <<>>)

\* the match blocks of the AST: the steps of kind StepMatch of every route
MatchBlocks ==
  UNION {{file.Routes[i].Steps[j].Match[1] :
            j \in {k \in 1..Len(file.Routes[i].Steps) :
                     /\ file.Routes[i].Steps[k].Kind = "StepMatch"
                     /\ file.Routes[i].Steps[k].Match # Nil}} :
         i \in 1..Len(file.Routes)}

\* C13: a match block whose wildcard arm is not the last arm, or which has
\* more than one wildcard arm, is never accepted silently: when the compiler
\* ends without a diagnostic and with an IR, every wildcard arm of every
\* match block is the block's last arm.
C13_WildcardLastAndUnique ==
  pc = "done" =>
    \A m \in MatchBlocks :
       \A k \in 1..Len(m.Arms) : m.Arms[k].IsDefault => k = Len(m.Arms)

\* the match steps of route i of the AST, and of the IR, in order
ASTMatches(i) ==
  SelectSeq(file.Routes[i].Steps, LAMBDA s : s.Kind = "StepMatch" /\ s.Match # Nil)

IRMatches(i) ==
  IF root[1].Routes[i].Process = Nil THEN <<>>
  ELSE SelectSeq(root[1].Routes[i].Process[1].Steps, LAMBDA s : s.kind = "MatchProcessStep")

\* the IR pattern kind an AST pattern kind is lowered to
IRPatternKind(kind) ==
  CASE kind = "PatternLiteral" -> "PatternValue"
    [] kind = "PatternMulti" -> "PatternIn"
    [] kind = "PatternRange" -> "PatternRange"
    [] kind = "PatternRegex" -> "PatternRegex"
    [] OTHER -> "nil"

\* default is the lowering of the wildcard arm: one of the three shapes
IsDefaultOf(default, arm) ==
  /\ default # Nil
  /\ CASE arm.ErrorOnly /\ arm.ErrorFlow # Nil -> default[1].kind = "MatchDefaultError"
       [] ~arm.ErrorOnly /\ arm.VarRef # <<>> ->
            default[1].kind = "ref" /\ default[1].Ref = arm.VarRef
       [] ~arm.ErrorOnly /\ arm.VarRef = <<>> /\ arm.Step # Nil ->
            default[1].kind = "MatchArm" /\ default[1].Use = arm.Step[1].Pkg
       [] OTHER -> FALSE

\* the arm carries an action: an error flow alone, a variable reference or a
\* package call
HasAction(arm) ==
  (arm.ErrorOnly /\ arm.ErrorFlow # Nil) \/ arm.VarRef # <<>> \/ arm.Step # Nil

\* the arms of a match block of the AST (a) and of the IR block made from it
\* (b), wild being the wildcard arms of a that are lowered
ArmsLowered(a, b, wild) ==
  \E rest \in {SelectSeq(a.Arms, LAMBDA arm : ~arm.IsDefault)} :
     /\ Len(b.Arms) = Len(rest)
     /\ \A k \in 1..Len(rest) :
           /\ b.Arms[k].Pattern.kind = IRPatternKind(rest[k].Pattern.Kind)
           /\ b.Arms[k].Pattern.kind # "nil"
     /\ IF wild = <<>> THEN b.Default = Nil ELSE IsDefaultOf(b.Default, wild[Len(wild)])

AllWildcards(a) == SelectSeq(a.Arms, LAMBDA arm : arm.IsDefault)

WildcardsWithAction(a) == SelectSeq(a.Arms, LAMBDA arm : arm.IsDefault /\ HasAction(arm))

CastNames ==
  {<<"i", "n", "t">>, <<"s", "t", "r", "i", "n", "g">>, <<"b", "o", "o", "l">>,
   <<"f", "l", "o", "a", "t">>, <<"d", "a", "t", "e", "t", "i", "m", "e">>}

\* C15: for a transform step whose fields are f: fn(src), the IR entry of f is
\* a cast entry (cast = fn, no fn) exactly when fn is one of int, string,
\* bool, float, datetime, and a function entry (fn = fn, no cast) otherwise;
\* from = src in both.  An empty Cast or Fn is left out of the JSON object.
C15_TransformCastOrFn ==
  \A seq \in TransformSeqs :
     (Ended /\ l.input = ArgsText(TransformOpen, TransformFields, seq))
       => /\ pc = "done"
          /\ Len(out) = 1
          /\ "transform_in" \in DOMAIN out[1]
          /\ \A i \in 1..Len(seq) :
                \E f \in {TransformFields[seq[i]]} :
                   /\ f.name \in DOMAIN out[1].transform_in.v
                   /\ out[1].transform_in.v[f.name] =
                        IF f.fn \in CastNames
                        THEN [Cast |-> f.fn, Fn |-> <<>>, From |-> f.src]
                        ELSE [Cast |-> <<>>, Fn |-> f.fn, From |-> f.src]

\* transform(id: int(id), n: trim(name)) has been compiled to a cast entry and
\* a function entry
C15_Witness ==
  /\ pc = "done"
  /\ l.input = ArgsText(TransformOpen, TransformFields, <<1, 6>>)
  /\ out[1].transform_in.v[<<"i", "d">>].Cast = <<"i", "n", "t">>
  /\ out[1].transform_in.v[<<"n">>].Fn = <<"t", "r", "i", "m">>

\* the input map the claim describes for the argument forms seq[i..], m being
\* the map so far and typeSeen telling whether a type reference was recorded
RECURSIVE ExpectedPkgInput(_, _, _, _)
ExpectedPkgInput(seq, i, m, typeSeen) ==
  IF i > Len(seq) THEN m
  ELSE \* the i-th argument
    With([a \in {PkgArgs[seq[i]]} |->
       CASE a.form = "named" ->
              ExpectedPkgInput(seq, i + 1, MapSet(m, a.name, [Str |-> a.value]), typeSeen)
         [] a.form = "type" ->
              ExpectedPkgInput(seq, i + 1, MapSet(m, <<"t", "y", "p", "e">>, [Str |-> a.value]), TRUE)
         [] a.form = "object" ->
              ExpectedPkgInput(seq, i + 1,
                               MapSet(m, <<"d", "a", "t", "a">>,
                                      [Map |-> [k \in {a.fields[n] : n \in 1..Len(a.fields)} |-> k]]),
                               typeSeen)
         [] a.form = "bare" ->
              ExpectedPkgInput(seq, i + 1,
                               MapSet(m, IF typeSeen THEN <<"i", "d">> ELSE a.value, [Str |-> a.value]),
                               typeSeen)])

\* C16: the input of a package call f(a1, ..., an), its arguments taken left
\* to right: a named argument under its name, a type reference under "type",
\* an object shorthand under "data" as the map of each field name to itself,
\* a bare positional value under "id" if and only if a type reference was
\* recorded earlier in the call, and under its own value otherwise.
C16_PkgInputKeys ==
  \A seq \in PkgSeqs :
     (Ended /\ l.input = ArgsText(PkgOpen, PkgArgs, seq))
       => /\ pc = "done"
          /\ Len(out) = 1
          /\ "process" \in DOMAIN out[1]
          /\ Len(out[1].process.v.Steps) = 1
          /\ out[1].process.v.Steps[1].Input = ExpectedPkgInput(seq, 1, <<>>, FALSE)

\* the rule the claim describes for the constraints seq[i..], vr being the
\* rule so far
RECURSIVE ExpectedRule(_, _, _)
ExpectedRule(seq, i, vr) ==
  IF i > Len(seq) THEN vr
  ELSE
    With([c \in {Constraints[seq[i]]} |->
       ExpectedRule(seq, i + 1,
         CASE c.name \in CastNames -> [vr EXCEPT !.Type = c.name]
           [] c.name = <<"m", "i", "n">> /\ c.arg = "int" -> [vr EXCEPT !.Min = <<c.int>>]
           [] c.name = <<"m", "a", "x">> /\ c.arg = "int" -> [vr EXCEPT !.Max = <<c.int>>]
           [] c.name = <<"f", "o", "r", "m", "a", "t">> /\ c.arg # "none" -> [vr EXCEPT !.Format = c.str]
           [] OTHER -> vr)])

\* C17: for validate(id: c1 & ... & cn) the rule of id has type = the last
\* constraint named int, string, bool, float or datetime; min / max = the
\* integer first argument of a min / max constraint, unset when it is not an
\* integer; format = the first argument of format as a string; other names
\* change nothing; and the error flow of the step is the error of the
\* validate entry, with its status and body.
C17_ValidateRule ==
  \A seq \in ValidateSeqs : \A e \in BOOLEAN :
     (Ended /\ l.input = ValidateText(seq, e))
       => /\ pc = "done"
          /\ Len(out) = 1
          /\ "validate" \in DOMAIN out[1]
          /\ out[1].validate # JNull
          /\ DOMAIN out[1].validate.v.Rules = {<<"i", "d">>}
          /\ out[1].validate.v.Rules[<<"i", "d">>]
               = ExpectedRule(seq, 1, [Type |-> <<>>, Min |-> <<>>, Max |-> <<>>, Format |-> <<>>])
          /\ out[1].validate.v.Error
               = IF e THEN <<[Status |-> 422, Body |-> (<<"e">> :> <<"b", "a", "d">>)]>> ELSE <<>>

\* the kinds of the steps of an AST route
StepKinds(route) == {route.Steps[j].Kind : j \in 1..Len(route.Steps)}

\* C18: Generate returns an IR root for every AST that ParseFile returns, with
\* or without diagnostics: it never fails, it makes one IR route per AST
\* route, and what the AST lacks is absent from the IR (no input, validate,
\* transform, process or output without a step of that kind).
C18_GenerateIsTotal ==
  /\ pc # "genpanic"
  /\ pc = "generated" =>
       /\ Len(root) = 1
       /\ Len(root[1].Routes) = Len(file.Routes)
       /\ \A i \in 1..Len(file.Routes) :
             \E kinds \in {StepKinds(file.Routes[i])} : \E r \in {root[1].Routes[i]} :
                /\ "StepInput" \notin kinds => r.Input = <<>>
                /\ "StepValidate" \notin kinds => r.Validate = Nil
                /\ "StepTransform" \notin kinds => r.TransformIn = <<>>
                /\ kinds \cap {"StepGuard", "StepMatch", "StepPkgCall"} = {} => r.Process = Nil
                /\ "StepRespond" \notin kinds => r.Output = Nil

\* an AST recovered from a source with a diagnostic, holding a match block
\* that lost its arm and no respond step, has been lowered
C18_Witness ==
  /\ pc = "generated"
  /\ Len(errors) > 0
  /\ Len(file.Routes) >= 1
  /\ StepKinds(file.Routes[1]) = {"StepMatch"}
  /\ file.Routes[1].Steps[1].Match[1].Arms = <<>>
  /\ root[1].Routes[1].Process # Nil
  /\ root[1].Routes[1].Output = Nil

\* a token made by readIdentifier: an identifier or a keyword
WordToken(t) == Len(t.Literal) > 0 /\ isIdentStart(t.Literal[1]) /\ t.Type = LookupIdent(t.Literal)

\* where the identifier that holds the offset i of input ends: letters, digits
\* and underscores continue it, a hyphen only when a letter or digit follows
RECURSIVE WordEnd(_, _)
WordEnd(input, i) ==
  IF i < Len(input) /\ isAlphaNumUnderscore(input[i + 1]) THEN WordEnd(input, i + 1)
  ELSE IF i + 1 < Len(input) /\ input[i + 1] = "-" /\ isAlphaNum(input[i + 2])
       THEN WordEnd(input, i + 2)
       ELSE i

Defining(k, mapOf(_)) == {i \in 1..Len(fileIRs) : k \in DOMAIN mapOf(fileIRs[i])}

\* the largest member of a non-empty set of numbers
Last(S) == CHOOSE i \in S : \A j \in S : j <= i

\* merged is the last-wins union of the maps mapOf(fileIR) of the merged files
LastWinsUnion(merged, mapOf(_)) ==
  /\ DOMAIN merged = UNION {DOMAIN mapOf(fileIRs[i]) : i \in 1..Len(fileIRs)}
  /\ \A k \in DOMAIN merged : merged[k] = mapOf(fileIRs[Last(Defining(k, mapOf))])[k]

ImportsOf(r) == r.Imports
TypesOf(r) == r.Types

RECURSIVE RoutesOf(_)
RoutesOf(irs) == IF irs = <<>> THEN <<>> ELSE Head(irs).Routes \o RoutesOf(Tail(irs))

\* C20: after any number of merges the root holds the last-wins union of the
\* files' imports and of their types, the defaults of the last merged file
\* that defines any (none when no file does), and the files' routes
\* concatenated in processing order.
C20_MergeIR ==
  pc \in {"next", "new", "begin", "loop", "parsed", "done", "exit"} =>
     \E m \in {root[1]} :
        /\ LastWinsUnion(m.Imports, ImportsOf)
        /\ LastWinsUnion(m.Types, TypesOf)
        /\ \E defs \in {{i \in 1..Len(fileIRs) : fileIRs[i].Defaults # Nil}} :
              m.Defaults = IF defs = {} THEN Nil ELSE fileIRs[Last(defs)].Defaults
        /\ m.Routes = RoutesOf(fileIRs)

\* two files that both define the import f, the type U and defaults, with
\* different values, and a third file that defines no defaults, were merged
C20_Witness ==
  /\ pc = "done"
  /\ Len(fileIRs) = 3
  /\ fileIRs[1].Imports # fileIRs[2].Imports
  /\ DOMAIN fileIRs[1].Imports = DOMAIN fileIRs[2].Imports
  /\ DOMAIN fileIRs[1].Imports # {}
  /\ fileIRs[1].Types # fileIRs[2].Types
  /\ DOMAIN fileIRs[1].Types = DOMAIN fileIRs[2].Types
  /\ fileIRs[1].Defaults # Nil
  /\ fileIRs[2].Defaults # Nil
  /\ fileIRs[1].Defaults # fileIRs[2].Defaults
  /\ fileIRs[3].Defaults = Nil
  /\ Len(fileIRs[3].Routes) > 0
  /\ Len(root[1].Routes) = 3

\* C21: every route of the generated IR carries an output record, also when
\* the AST route has no respond step: the output pointer is never nil and the
\* marshalled "output" is an object (status 0, no body, no headers), not null.
C21_OutputAlwaysRecord ==
  /\ pc \in {"generated", "done"} =>
        \A i \in 1..Len(root[1].Routes) :
           /\ root[1].Routes[i].Output # Nil
           /\ "StepRespond" \notin StepKinds(file.Routes[i]) =>
                 root[1].Routes[i].Output = <<[Status |-> 0, Body |-> <<>>, Headers |-> <<>>]>>
  /\ pc = "done" =>
        \A i \in 1..Len(out) : "output" \in DOMAIN out[i] /\ out[i]["output"] # JNull

\* C22: Generate leaves the AST unchanged, and so does every later change of
\* a list held by the IR (cache vary, cors origins, methods, headers and
\* expose-headers, auth roles and permissions).
C22_DisjointTrees == [][(pc \in {"parsed", "generated"}) => (file' = file)]_vars

\* C23: on a route made of pipeline steps only (no match block), whatever
\* tokens stand in field-name position, every iteration of a field-list loop
\* (parseInput, parseValidate, parseTransform, parseBodyFields, the object
\* shorthand of parsePkgCall) consumes a token, so no loop of the parse runs
\* an iteration that leaves the parser where it was.
C23_FieldLoopsAdvance == l.input \in StepTexts => pc # "hung"

\* C24: for a match block whose last arm lacks the ':' after its pattern and
\* which is followed by a pipeline step, parseMatch returns with one
\* diagnostic for the arm, and the step after the block is parsed into the
\* AST without a diagnostic of its own.
C24Texts == {MatchHead \o a \o ArmNoColon \o MatchTail : a \in {<<>>, ArmString, ArmDefault}}

C24_MalformedArmRecovery ==
  (l.input \in C24Texts /\ ParseEnded) =>
     /\ ParseReturned
     /\ Len(errors) = 1
     /\ Len(file.Routes) = 1
     /\ \E steps \in {file.Routes[1].Steps} :
           /\ Len(steps) = 2
           /\ steps[1].Kind = "StepMatch"
           /\ steps[2].Kind = "StepRespond"

\* C25: when ParseFile returns, every illegal token of the source (at top
\* level, in a route path, in a directive argument list, in constraint
\* arguments, in a step body) has a diagnostic at its line and column.
C25_IllegalTokenDiagnosed ==
  (l.input \in IllegalTexts /\ ParseReturned) =>
     \E toks \in {Tokens(l.input)} :
        \A k \in 1..Len(toks) :
           toks[k].Type = "ILLEGAL" =>
              \E i \in 1..Len(errors) : \E d \in {diagnoseOne(errors[i])} :
                 /\ d.Line + 1 = toks[k].Pos.Line
                 /\ d.Character + 1 = toks[k].Pos.Column

\* C26: between the steps of a parse, and when ParseFile has returned or
\* failed, the tokenizer's regex mode is off: parsePattern, the only routine
\* that turns it on, has turned it off again on every way out.
C26_RegexModeScoped == l.regexMode = FALSE

\* a match arm whose pattern turned out malformed after a regex literal was
\* read in regex mode has been parsed, and ParseFile has returned
C26_Witness ==
  /\ pc = "parsed"
  /\ l.input = MatchHead \o ArmMultiRegex \o MatchClose
  /\ Len(errors) > 0
  /\ Len(file.Routes) = 1
  /\ file.Routes[1].Steps[1].Kind = "StepMatch"
  /\ l.regexMode = FALSE

\* the counter after a token of type t, for the counter whose brackets have
\* the types open and close
DepthAfter(depth, t, open, close) ==
  IF t = open THEN depth + 1
  ELSE IF t = close /\ depth > 0 THEN depth - 1
  ELSE depth

\* a NextToken call that returned: regex mode is as before the step
TokenStep == pc = "lex" /\ pc' = "lex" /\ l'.regexMode = l.regexMode

\* C27: the three bracket-depth counters are never negative, and a NextToken
\* call changes a counter only by the token it returns: +1 for the counter's
\* opening bracket, -1 for its closing bracket above zero, nothing for its
\* closing bracket at zero and for every other token; so brackets inside
\* string literals, regex literals and comments change no counter.
C27_DepthCounters ==
  /\ [](l.parenDepth >= 0 /\ l.braceDepth >= 0 /\ l.bracketDepth >= 0)
  /\ [][TokenStep =>
          /\ l'.parenDepth = DepthAfter(l.parenDepth, tok'.Type, "LPAREN", "RPAREN")
          /\ l'.braceDepth = DepthAfter(l.braceDepth, tok'.Type, "LBRACE", "RBRACE")
          /\ l'.bracketDepth = DepthAfter(l.bracketDepth, tok'.Type, "LBRACKET", "RBRACKET")]_vars

\* after a comment holding an opening bracket, a closing bracket was read at
\* depth zero
C27_Witness ==
  /\ pc = "lex"
  /\ l.input = <<"#", "(", NL, ")">>
  /\ tok.Type = "RPAREN"
  /\ l.parenDepth = 0

ProcessKinds == {"StepGuard", "StepMatch", "StepPkgCall"}

\* the IR step s is the lowering of the AST step a: same kind, same subject
LoweredFrom(s, a) ==
  CASE a.Kind = "StepGuard" ->
         /\ s.kind = "GuardStep"
         /\ s.Guard = IF a.Guard[1].Negated THEN [Not |-> a.Guard[1].Expr]
                      ELSE [Str |-> a.Guard[1].Expr]
    [] a.Kind = "StepMatch" -> s.kind = "MatchProcessStep" /\ s.Match.On = a.Match[1].On
    [] a.Kind = "StepPkgCall" ->
         s.kind = "PkgStep" /\ s.Use = a.PkgCall[1].Pkg /\ s.Bind = a.Bind

\* C28: for every route, process.steps holds one entry per guard, match and
\* package-call step of the AST route, in the AST's order, and nothing else;
\* process is absent when the route has no such step.
C28_ProcessSteps ==
  pc \in {"generated", "done"} =>
     \A i \in 1..Len(file.Routes) :
        \E asts \in {SelectSeq(file.Routes[i].Steps, LAMBDA a : a.Kind \in ProcessKinds)} :
           \E process \in {root[1].Routes[i].Process} :
              IF asts = <<>> THEN process = Nil
              ELSE /\ process # Nil
                   /\ Len(process[1].Steps) = Len(asts)
                   /\ \A j \in 1..Len(asts) : LoweredFrom(process[1].Steps[j], asts[j])

\* a route with a package call followed by a guard has been lowered
C28_Witness ==
  /\ pc = "generated"
  /\ Len(file.Routes) = 1
  /\ Len(file.Routes[1].Steps) = 2
  /\ file.Routes[1].Steps[1].Kind = "StepPkgCall"
  /\ file.Routes[1].Steps[2].Kind = "StepGuard"
  /\ Len(root[1].Routes[1].Process[1].Steps) = 2
  /\ root[1].Routes[1].Process[1].Steps[1].kind = "PkgStep"

\* the diagnostic d1 is at or before the diagnostic d2 in the source
AtOrBefore(d1, d2) ==
  d1.Line < d2.Line \/ (d1.Line = d2.Line /\ d1.Character <= d2.Character)

\* C29: during a parse the diagnostics list only grows at its end, and its
\* entries are in source order: the (line, column) of a diagnostic is greater
\* than or equal to that of every diagnostic appended before it.
C29_DiagnosticsInOrder ==
  /\ [](\A i \in 1..Len(errors) : \A j \in i..Len(errors) :
           AtOrBefore(diagnoseOne(errors[i]), diagnoseOne(errors[j])))
  /\ [][/\ Len(errors') >= Len(errors)
        /\ SubSeq(errors', 1, Len(errors)) = errors]_vars

\* two diagnostics on different lines have been recorded
C29_Witness ==
  /\ Len(errors) >= 2
  /\ diagnoseOne(errors[1]).Line < diagnoseOne(errors[Len(errors)]).Line

\* the text a Get of uri has to return after the calls of lg took effect in
\* that order: the text of the last Open or Update of uri unless a Close of
\* uri came after it, the empty string otherwise
RECURSIVE Expected(_, _)
Expected(lg, uri) ==
  IF lg = <<>> THEN <<>>
  ELSE With([e \in {lg[Len(lg)]} |->
          IF e.uri = uri /\ e.op \in {"Open", "Update"} THEN e.text
          ELSE IF e.uri = uri /\ e.op = "Close" THEN <<>>
          ELSE Expected(SubSeq(lg, 1, Len(lg) - 1), uri)])

\* the goroutines between taking and releasing the mutex
Holders == {g \in Goroutines : calls[g].pc \in {"body", "unlock"}}

\* C30: under every interleaving the calls take effect one after the other: a
\* goroutine inside Open, Update or Close holds the store alone; every Get
\* returned the text of the last Open or Update of its uri that no Close of
\* that uri followed, and the empty string otherwise; and the store holds for
\* every uri what the calls on that uri left, whatever was done to other uris.
C30_StoreCallsAtomic ==
  /\ \A g \in Holders : calls[g].op # "Get" => Holders = {g}
  /\ \A k \in 1..Len(log) :
        log[k].op = "Get" => log[k].text = Expected(SubSeq(log, 1, k - 1), log[k].uri)
  /\ \A uri \in URIs : Get(store.docs, uri) = Expected(log, uri)

\* a document was opened and closed, and a Get of it then returned the
\* empty string
C30_Witness ==
  /\ Len(log) = 3
  /\ log[1].op = "Open"
  /\ log[2].op = "Close"
  /\ log[2].uri = log[1].uri
  /\ log[3].op = "Get"
  /\ log[3].uri = log[1].uri
  /\ log[3].text = <<>>
====
